---- MODULE Spec2Model ----
(***************************************************************************)
(* Model of the diplomacy state, the AI-dialogue rule engine and the       *)
(* orchestrator's AI dialogue turn of the Mannerheim interactive-fiction   *)
(* engine (DiplomacyEngine, AIWorker in its two variants, GameEngine).     *)
(***************************************************************************)
EXTENDS Integers, Sequences, FiniteSets, TLC

VARIABLES gameState, moduleDiplomacy, worker, turn, ops, call,
          currentState, history, now, nav, aiEnabled,
          engine, screen, flights, timers, listeners, gameData, npcCache

vars == <<gameState, moduleDiplomacy, worker, turn, ops, call,
          currentState, history, now, nav, aiEnabled,
          engine, screen, flights, timers, listeners, gameData, npcCache>>

\* the state machine's cursor and history, the clock and the orchestrator's AI switch
navVars == <<currentState, history, now, nav, aiEnabled>>

\* the orchestrator variant, what the choices container shows, the remote
\* calls in flight and the timers pending
uiVars == <<engine, screen, flights, timers, listeners>>

\* the AI worker's constructor data and its profile cache
profileVars == <<gameData, npcCache>>

(***************************************************************************)
(* Bounds of the model.                                                    *)
(***************************************************************************)
\* number of top-level operations (calls, submits) explored in one playthrough
MaxOps == 3
\* cap on the unbounded player_traits accumulation
MaxTrait == 4
\* longest expected-value / analysis-value list drawn for matchesCondition
MaxLen == 2
\* opinion deltas drawn for applyFallbackProtections are -MaxPenalty..MaxBonus
MaxPenalty == 14
MaxBonus == 4

(***************************************************************************)
(* JavaScript objects used as maps: functions over a set of string keys.   *)
(* A key that is absent reads as undefined; `(m[k] || 0)` reads it as 0.   *)
(***************************************************************************)
EmptyMap == [k \in {} |-> 0]

Has(m, k) == k \in DOMAIN m

GetOr0(m, k) == IF k \in DOMAIN m THEN m[k] ELSE 0

\* an optional sub-object of an effects object (`effects.factions` etc.)
Sub(e, f) == IF f \in DOMAIN e THEN e[f] ELSE EmptyMap

Max(a, b) == IF a >= b THEN a ELSE b

Min(a, b) == IF a <= b THEN a ELSE b

\* Math.max(-100, Math.min(100, v))
Clamp(v) == Max(-100, Min(100, v))

(***************************************************************************)
(* JSON values of an analysis or of a condition entry: a string, a list of *)
(* strings, or undefined (a missing key).  isArray is Array.isArray(v); a  *)
(* string carries itself as its only item, undefined carries none.         *)
(***************************************************************************)
Scalar(v) == [isArray |-> FALSE, items |-> <<v>>]

List(s) == [isArray |-> TRUE, items |-> s]

Undefined == [isArray |-> FALSE, items |-> <<>>]

\* analysis[key]
Field(analysis, key) == IF key \in DOMAIN analysis THEN analysis[key] ELSE Undefined

\* JavaScript `actualValue === expected` where expected is a string
StrictEqString(actualValue, expected) ==
    /\ ~actualValue.isArray
    /\ actualValue.items = <<expected>>

(***************************************************************************)
(* Content documents (the Content Store's JSON).                           *)
(***************************************************************************)
\* core/npc_diplomacy_rules.json: per-character rule table (npc_rules)
NpcRules == [n \in {"trepov"} |-> [fallback_rule |-> "offer_second_chance"]]

\* prologue/viesti4.json: AI profiles with their scene_scope
AiProfiles ==
    [n \in {"trepov", "kf"} |->
        IF n = "trepov" THEN [scene_scope |-> {"2_trepov_meeting", "6_departure"}]
                        ELSE [scene_scope |-> {"4_kf_meeting"}]]

\* core/diplomacy_core.json: the factions known to the content
CoreFactions == {"RUS"}

\* prologue/viesti2_corrected.json: per-scene effect tables
TrepovMappings ==
    << [condition |-> << [key |-> "overall_tone",
                          expected |-> List(<<"loyal", "neutral">>)] >>,
        effects   |-> [factions     |-> [k \in {"RUS"} |-> 5],
                       npc_opinions |-> [k \in {"trepov"} |-> 5]]],
       [condition |-> << [key |-> "overall_tone",
                          expected |-> List(<<"critical">>)],
                         [key |-> "detected_stance_towards_russia",
                          expected |-> Scalar("hostile")] >>,
        effects   |-> [npc_opinions |-> [k \in {"trepov", "kf"} |->
                                            IF k = "trepov" THEN -50 ELSE -10],
                       flags        |-> [k \in {"insulted_trepov"} |-> TRUE]]],
       [condition |-> << [key |-> "overall_tone",
                          expected |-> List(<<"critical", "loyal">>)] >>,
        effects   |-> [npc_opinions  |-> [k \in {"trepov"} |-> -10],
                       player_traits |-> [k \in {"INDEPENDENCE"} |-> 1]]] >>

KfMappings ==
    << [condition |-> << [key |-> "overall_tone",
                          expected |-> List(<<"critical">>)] >>,
        effects   |-> [npc_opinions |-> [k \in {"kf"} |-> -10]]] >>

ModuleDiplomacy ==
    [acts |->
      << [scene   |-> "2_trepov_meeting",
          choices |-> << [id |-> "a",
                          effects |-> [factions     |-> [k \in {"RUS"} |-> 60],
                                       npc_opinions |-> [k \in {"trepov"} |-> 45]]],
                         [id |-> "b",
                          effects |-> [npc_opinions  |-> [k \in {"trepov"} |-> -38],
                                       player_traits |-> [k \in {"INDEPENDENCE"} |-> 1],
                                       flags         |-> [k \in {"defied_trepov"} |-> TRUE]]] >>,
          ai_dialogue |-> [effects_mapping |-> TrepovMappings]],
         [scene   |-> "4_kf_meeting",
          linear_choices |-> << [id |-> "c",
                                 effects |-> [npc_opinions |-> [k \in {"kf"} |-> -75]]] >>,
          ai_dialogue |-> [effects_mapping |-> KfMappings]],
         [scene   |-> "6_departure"] >>]

SceneIds == {"2_trepov_meeting", "4_kf_meeting", "6_departure", "9_unknown"}

ChoiceIds == {"a", "b", "c", "z"}

NpcIds == {"trepov", "kf"}

(***************************************************************************)
(* DiplomacyEngine                                                         *)
(***************************************************************************)
\* DiplomacyEngine.initializeGameState (prologue NPCs: those of the model)
initializeGameState ==
    [factions      |-> [f \in CoreFactions |-> 0],
     player_traits |-> [t \in {"INDEPENDENCE", "NEUTRALITY"} |-> 0],
     npc_opinions  |-> [n \in NpcIds |-> 0],
     flags         |-> [k \in {} |-> TRUE]]

\* an accumulation that forgets to clamp
AddUnclamped(current, deltas) ==
    [k \in DOMAIN current \cup DOMAIN deltas |->
        IF k \in DOMAIN deltas THEN GetOr0(current, k) + deltas[k]
                               ELSE current[k]]

\* the clamped accumulation loops of applyEffects (factions, npc_opinions)
AddClamped(current, deltas) ==
    [k \in DOMAIN current \cup DOMAIN deltas |->
        IF k \in DOMAIN deltas THEN Clamp(GetOr0(current, k) + deltas[k])
                               ELSE current[k]]

\* a trait accumulation that clamps like the faction loop does
AddTraitClamped(current, deltas) ==
    [k \in DOMAIN current \cup DOMAIN deltas |->
        IF k \in DOMAIN deltas THEN Clamp(GetOr0(current, k) + deltas[k])
                               ELSE current[k]]

\* the unclamped accumulation loop of applyEffects (player_traits)
AddPlain(current, deltas) ==
    [k \in DOMAIN current \cup DOMAIN deltas |->
        IF k \in DOMAIN deltas THEN GetOr0(current, k) + deltas[k]
                               ELSE current[k]]

\* Object.assign(target, source)
ObjectAssign(target, source) ==
    [k \in DOMAIN target \cup DOMAIN source |->
        IF k \in DOMAIN source THEN source[k] ELSE target[k]]

\* DiplomacyEngine.applyEffects: the game state after applying effects
applyEffects(gs, effects) ==
    [factions      |-> AddClamped(gs.factions, Sub(effects, "factions")),
     player_traits |-> AddPlain(gs.player_traits, Sub(effects, "player_traits")),
     npc_opinions  |-> AddClamped(gs.npc_opinions, Sub(effects, "npc_opinions")),
     flags         |-> ObjectAssign(gs.flags, Sub(effects, "flags"))]

\* acts.find(a => a.scene === sceneId): index of the first such act, 0 if none
FindScene(acts, sceneId) ==
    LET S == {i \in 1..Len(acts) : acts[i].scene = sceneId}
    IN  IF S = {} THEN 0 ELSE CHOOSE i \in S : \A j \in S : i <= j

\* list.find(c => c.id === choiceId): index of the first such entry, 0 if none
FindChoice(list, choiceId) ==
    LET S == {i \in 1..Len(list) : list[i].id = choiceId}
    IN  IF S = {} THEN 0 ELSE CHOOSE i \in S : \A j \in S : i <= j

\* a match that requires every expected value to be met, not some
everyExpectedMatches(expectedValues, actualValue) ==
    \A i \in 1..Len(expectedValues.items) :
        IF actualValue.isArray
        THEN \E j \in 1..Len(actualValue.items) :
                 actualValue.items[j] = expectedValues.items[i]
        ELSE StrictEqString(actualValue, expectedValues.items[i])

\* expectedValues.some(expected => Array.isArray(actualValue)
\*     ? actualValue.some(v => v === expected) : actualValue === expected)
someExpectedMatches(expectedValues, actualValue) ==
    \E i \in 1..Len(expectedValues.items) :
        IF actualValue.isArray
        THEN \E j \in 1..Len(actualValue.items) :
                 actualValue.items[j] = expectedValues.items[i]
        ELSE StrictEqString(actualValue, expectedValues.items[i])

\* one iteration of the loop of matchesCondition: TRUE when the key matches
entryMatches(entry, analysis) ==
    LET expectedValues == entry.expected
        actualValue    == Field(analysis, entry.key)
    IN  IF expectedValues.isArray
        THEN someExpectedMatches(expectedValues, actualValue)
        ELSE StrictEqString(actualValue, expectedValues.items[1])

RECURSIVE matchesFrom(_, _, _)
\* the for loop of matchesCondition from entry i on (return false on a miss)
matchesFrom(condition, analysis, i) ==
    IF i > Len(condition) THEN TRUE
    ELSE IF ~entryMatches(condition[i], analysis) THEN FALSE
    ELSE matchesFrom(condition, analysis, i + 1)

\* AIWorker.matchesCondition
matchesCondition(condition, analysis) == matchesFrom(condition, analysis, 1)

\* DiplomacyEngine.matchesCondition (the same text as the AIWorker's)
engineMatchesCondition(condition, analysis) == matchesFrom(condition, analysis, 1)

\* the choice list applyChoice searches: scene.choices, else scene.linear_choices
ChoiceList(scene) ==
    IF "choices" \in DOMAIN scene THEN scene.choices
    ELSE IF "linear_choices" \in DOMAIN scene THEN scene.linear_choices
    ELSE << >>

\* an applyChoice that falls back to the scene's first choice when the id
\* matches none
applyChoiceFirstChoice(gs, md, sceneId, choiceId) ==
    LET s == FindScene(md.acts, sceneId)
    IN  IF s = 0 THEN gs
        ELSE LET list == ChoiceList(md.acts[s])
                 c    == FindChoice(list, choiceId)
                 pick == IF c = 0 /\ Len(list) > 0 THEN 1 ELSE c
             IN  IF pick = 0 THEN gs
                 ELSE IF "effects" \notin DOMAIN list[pick] THEN gs
                 ELSE applyEffects(gs, list[pick].effects)

\* DiplomacyEngine.applyChoice: the game state after the call (a choice
\* without an effects object makes applyEffects throw before any write)
applyChoice(gs, md, sceneId, choiceId) ==
    LET s == FindScene(md.acts, sceneId)
    IN  IF s = 0 THEN gs
        ELSE LET c == FindChoice(ChoiceList(md.acts[s]), choiceId)
             IN  IF c = 0 THEN gs
                 ELSE IF "effects" \notin DOMAIN ChoiceList(md.acts[s])[c] THEN gs
                 ELSE applyEffects(gs, ChoiceList(md.acts[s])[c].effects)

\* DiplomacyEngine.applyChoice: the error the call throws ("none" when it
\* returns): applyEffects(undefined) reads effects.factions and throws
applyChoiceError(md, sceneId, choiceId) ==
    LET s == FindScene(md.acts, sceneId)
    IN  IF s = 0 THEN "none"
        ELSE LET c == FindChoice(ChoiceList(md.acts[s]), choiceId)
             IN  IF c = 0 THEN "none"
                 ELSE IF "effects" \notin DOMAIN ChoiceList(md.acts[s])[c]
                 THEN "TypeError"
                 ELSE "none"

RECURSIVE engineFirstMatch(_, _, _)
\* the mapping loop of DiplomacyEngine.applyAIDialogue: index of the mapping
\* whose effects are applied, 0 when the loop falls through
engineFirstMatch(mappings, analysis, i) ==
    IF i > Len(mappings) THEN 0
    ELSE IF engineMatchesCondition(mappings[i].condition, analysis) THEN i
    ELSE engineFirstMatch(mappings, analysis, i + 1)

\* DiplomacyEngine.applyAIDialogue: the game state after the call
applyAIDialogue(gs, md, sceneId, analysis) ==
    LET s == FindScene(md.acts, sceneId)
    IN  IF s = 0 \/ "ai_dialogue" \notin DOMAIN md.acts[s] THEN gs
        ELSE LET mappings == md.acts[s].ai_dialogue.effects_mapping
                 m == engineFirstMatch(mappings, analysis, 1)
             IN  IF m = 0 THEN gs ELSE applyEffects(gs, mappings[m].effects)

(***************************************************************************)
(* AIWorker (the rule-table worker)                                        *)
(***************************************************************************)
\* AIWorker.getDefaultEffects
getDefaultEffects ==
    [factions |-> EmptyMap, player_traits |-> EmptyMap,
     npc_opinions |-> EmptyMap, flags |-> EmptyMap]

\* a scope check that only asks whether the character has an AI profile
isNPCAllowedAnyScene(npcId, sceneId) == npcId \in DOMAIN AiProfiles

\* AIWorker.isNPCAllowedInScene
isNPCAllowedInScene(npcId, sceneId) ==
    IF npcId \notin DOMAIN AiProfiles THEN FALSE
    ELSE sceneId \in AiProfiles[npcId].scene_scope

\* a lookup that lets the last matching mapping win
lastMatch(mappings, analysis, i) ==
    LET M == {j \in i..Len(mappings) : matchesCondition(mappings[j].condition, analysis)}
    IN  IF M = {} THEN 0 ELSE CHOOSE j \in M : \A k \in M : k <= j

RECURSIVE firstMatch(_, _, _)
\* the mapping loop of AIWorker.calculateDiplomacyEffects: index of the mapping
\* it returns from, 0 when the loop falls through
firstMatch(mappings, analysis, i) ==
    IF i > Len(mappings) THEN 0
    ELSE IF matchesCondition(mappings[i].condition, analysis) THEN i
    ELSE firstMatch(mappings, analysis, i + 1)

\* index of the mapping calculateDiplomacyEffects returns from (0: none); the
\* returned object's sub-maps are that mapping's own sub-map objects
matchedMapping(md, sceneId, analysis) ==
    LET s == FindScene(md.acts, sceneId)
    IN  IF s = 0 \/ "ai_dialogue" \notin DOMAIN md.acts[s] THEN 0
        ELSE firstMatch(md.acts[s].ai_dialogue.effects_mapping, analysis, 1)

\* AIWorker.calculateDiplomacyEffects
calculateDiplomacyEffects(md, npcId, sceneId, analysis) ==
    LET s == FindScene(md.acts, sceneId)
        m == matchedMapping(md, sceneId, analysis)
    IN  IF m = 0 THEN getDefaultEffects
        ELSE LET effects == md.acts[s].ai_dialogue.effects_mapping[m].effects
             IN  [factions      |-> Sub(effects, "factions"),
                  player_traits |-> Sub(effects, "player_traits"),
                  npc_opinions  |-> Sub(effects, "npc_opinions"),
                  flags         |-> Sub(effects, "flags")]

softLockThreshold == -40

hardLockThreshold == -80

\* the floor applied to a softened penalty: Math.max(delta, -3)
softenedPenalty == -3

\* effects.npc_opinions[npcId] < 0 (undefined < 0 is false)
IsPenalty(effects, npcId) ==
    /\ npcId \in DOMAIN effects.npc_opinions
    /\ effects.npc_opinions[npcId] < 0

\* a guard that zeroes every opinion entry of the delta, not only the character's
SetAllOpinionDeltas(effects, npcId, v) ==
    [effects EXCEPT !.npc_opinions = [k \in DOMAIN @ |-> v]]

\* effects.npc_opinions[npcId] = v
SetOpinionDelta(effects, npcId, v) ==
    [effects EXCEPT !.npc_opinions = [@ EXCEPT ![npcId] = v]]

\* currentOpinion + opinionDelta, each `|| 0`
predictedOpinion(npcId, effects, gs) ==
    GetOr0(gs.npc_opinions, npcId) + GetOr0(effects.npc_opinions, npcId)

\* a soft-lock test that also fires at the threshold itself
softLockReachedInclusive(predicted) == predicted <= softLockThreshold

\* predictedOpinion < softLockThreshold
softLockReached(predicted) == predicted < softLockThreshold

\* a hard-lock test with the comparison turned around
hardLockReachedFlipped(predicted) == predicted > hardLockThreshold

\* predictedOpinion < hardLockThreshold
hardLockReached(predicted) == predicted < hardLockThreshold

\* a softening that takes the smaller of the two values
softenPenaltyMin(delta) == Min(delta, softenedPenalty)

\* Math.max(effects.npc_opinions[npcId], -3)
softenPenalty(delta) == Max(delta, softenedPenalty)

\* AIWorker.applyFallbackProtections: the effects object after the call
applyFallbackProtections(npcId, effects, gs) ==
    IF npcId \notin DOMAIN NpcRules THEN effects
    ELSE LET predicted == predictedOpinion(npcId, effects, gs)
             softened ==
                 IF softLockReached(predicted) /\ IsPenalty(effects, npcId)
                 THEN SetOpinionDelta(effects, npcId,
                          softenPenalty(effects.npc_opinions[npcId]))
                 ELSE effects
         IN  IF hardLockReached(predicted) /\ IsPenalty(softened, npcId)
             THEN SetOpinionDelta(softened, npcId, 0)
             ELSE softened

\* the content after applyFallbackProtections wrote into the effects object:
\* its npc_opinions is the matched mapping's own npc_opinions object
aliasedContent(md, sceneId, m, guarded) ==
    LET s == FindScene(md.acts, sceneId)
    IN  IF m = 0 \/ "npc_opinions" \notin
                      DOMAIN md.acts[s].ai_dialogue.effects_mapping[m].effects
        THEN md
        ELSE [md EXCEPT !.acts[s].ai_dialogue.effects_mapping[m].effects.npc_opinions
                            = guarded.npc_opinions]

(***************************************************************************)
(* AIWorker (the simplified worker)                                        *)
(***************************************************************************)
\* a player utterance, as the set of keyword families it contains
KeywordFamilies == {"duty", "caution", "refusal", "agreement"}

\* a classification that tests the caution family before the duty family
analyzeCautionFirst(playerText) ==
    IF "caution" \in playerText
    THEN [tone |-> Scalar("concerned"), themes |-> List(<<"caution">>),
          sentiment |-> Scalar("neutral")]
    ELSE IF "duty" \in playerText
    THEN [tone |-> Scalar("loyal"), themes |-> List(<<"duty">>),
          sentiment |-> Scalar("positive")]
    ELSE IF "refusal" \in playerText
    THEN [tone |-> Scalar("defiant"), themes |-> List(<<"resistance">>),
          sentiment |-> Scalar("negative")]
    ELSE IF "agreement" \in playerText
    THEN [tone |-> Scalar("cooperative"), themes |-> List(<<"agreement">>),
          sentiment |-> Scalar("positive")]
    ELSE [tone |-> Scalar("neutral"), themes |-> List(<< >>),
          sentiment |-> Scalar("neutral")]

\* AIWorker.analyzePlayerResponse (simplified worker)
analyzePlayerResponse(playerText) ==
    IF "duty" \in playerText
    THEN [tone |-> Scalar("loyal"), themes |-> List(<<"duty">>),
          sentiment |-> Scalar("positive")]
    ELSE IF "caution" \in playerText
    THEN [tone |-> Scalar("concerned"), themes |-> List(<<"caution">>),
          sentiment |-> Scalar("neutral")]
    ELSE IF "refusal" \in playerText
    THEN [tone |-> Scalar("defiant"), themes |-> List(<<"resistance">>),
          sentiment |-> Scalar("negative")]
    ELSE IF "agreement" \in playerText
    THEN [tone |-> Scalar("cooperative"), themes |-> List(<<"agreement">>),
          sentiment |-> Scalar("positive")]
    ELSE [tone |-> Scalar("neutral"), themes |-> List(<< >>),
          sentiment |-> Scalar("neutral")]

\* opinionChange[analysis.sentiment] || 0
opinionChange(sentiment) ==
    IF StrictEqString(sentiment, "positive") THEN 5
    ELSE IF StrictEqString(sentiment, "negative") THEN -5
    ELSE 0

\* AIWorker.calculateDiplomacyEffects (simplified worker)
simpleCalculateDiplomacyEffects(npcId, sceneId, analysis) ==
    [factions      |-> IF StrictEqString(Field(analysis, "tone"), "loyal")
                       THEN [k \in {"RUS"} |-> 3] ELSE EmptyMap,
     npc_opinions  |-> [k \in {npcId} |-> opinionChange(Field(analysis, "sentiment"))],
     player_traits |-> IF StrictEqString(Field(analysis, "tone"), "loyal") THEN EmptyMap
                       ELSE IF StrictEqString(Field(analysis, "tone"), "defiant")
                       THEN [k \in {"INDEPENDENCE"} |-> 3]
                       ELSE IF StrictEqString(Field(analysis, "tone"), "concerned")
                       THEN [k \in {"NEUTRALITY"} |-> 2]
                       ELSE EmptyMap]

(***************************************************************************)
(* StateMachine (the narrative state graph and its cursor)                 *)
(***************************************************************************)
\* transition() called without a choice: choiceId = null
NoChoice == "<null>"

\* prologue/viesti3_corrected.json: the state graph
NodeIds == {"start", "s1", "hub1", "aid", "s2", "s3", "hub3", "s4", "sys2", "hub2", "end"}

StateMachineData ==
    [entry_state |-> "start",
     exit_state  |-> "end",
     states |-> [n \in NodeIds |->
        CASE n = "start" -> [type |-> "system", description |-> "init",
                             transitions |-> << [to |-> "s1"] >>]
          [] n = "s1"    -> [type |-> "scene", scene_id |-> "2_trepov_meeting",
                             choices |-> << [id |-> "a", next |-> "hub1"],
                                            [id |-> "b", next |-> "s2"],
                                            [id |-> "c", next |-> "s3"] >>,
                             transitions |-> << [to |-> "s2"] >>]
          [] n = "hub1"  -> [type |-> "hub", description |-> "POST 2_trepov_meeting",
                             ai_dialogue |-> [npc_id |-> "trepov"],
                             transitions |-> << [to |-> "aid"], [to |-> "s2"] >>]
          [] n = "aid"   -> [type |-> "ai_dialogue",
                             transitions |-> << [to |-> "s4"], [to |-> "s2"] >>]
          [] n = "s2"    -> [type |-> "scene", scene_id |-> "6_departure",
                             choices |-> << >>,
                             transitions |-> << [to |-> "hub3"] >>]
          [] n = "hub3"  -> [type |-> "hub", ai_dialogue |-> [npc_id |-> "kf"],
                             transitions |-> << [to |-> "s4"] >>]
          [] n = "s3"    -> [type |-> "scene", scene_id |-> "6_departure",
                             transitions |-> << [to |-> "s4"] >>]
          [] n = "s4"    -> [type |-> "scene", scene_id |-> "4_kf_meeting",
                             choices |-> << [id |-> "b", next |-> "hub2"],
                                            [id |-> "a", next |-> "sys2"],
                                            [id |-> "c", next |-> "end"] >>]
          [] n = "sys2"  -> [type |-> "system", transitions |-> << >>]
          [] n = "hub2"  -> [type |-> "hub", ai_dialogue |-> [npc_id |-> "sokolov"]]
          [] OTHER       -> [type |-> "system", description |-> "exit"]]]

\* core/npcs.json: the characters that have a base record
BaseNpcIds == {"trepov", "kf"}

\* the choice ids a caller passes to transition
ChoiceArgs == {NoChoice, "a", "b", "c", "z"}

\* !choiceId
NoChoiceGiven(choiceId) == choiceId = NoChoice

\* state.transitions[0].to: reading `.to` of undefined throws a TypeError
firstTransition(state) ==
    IF Len(state.transitions) = 0
    THEN [error |-> "TypeError", next |-> ""]
    ELSE [error |-> "none", next |-> state.transitions[1].to]

\* nothing resolved: nextState stays null
noNextState == [error |-> "none", next |-> ""]

\* a hub branch that ignores the choice id like the ai_dialogue branch does
resolveNextHubAnyChoice(state, choiceId) ==
    IF state.type = "scene" /\ "choices" \in DOMAIN state
    THEN LET c == FindChoice(state.choices, choiceId)
         IN  IF c # 0 THEN [error |-> "none", next |-> state.choices[c].next]
             ELSE IF NoChoiceGiven(choiceId) /\ "transitions" \in DOMAIN state
             THEN firstTransition(state)
             ELSE noNextState
    ELSE IF state.type \in {"hub", "ai_dialogue", "system"} /\ "transitions" \in DOMAIN state
    THEN IF Len(state.transitions) > 0 THEN firstTransition(state) ELSE noNextState
    ELSE noNextState

\* a resolution in which ai_dialogue and system nodes look the choice up
resolveNextChoiceEverywhere(state, choiceId) ==
    IF state.type = "scene" /\ "choices" \in DOMAIN state
    THEN LET c == FindChoice(state.choices, choiceId)
         IN  IF c # 0 THEN [error |-> "none", next |-> state.choices[c].next]
             ELSE IF NoChoiceGiven(choiceId) /\ "transitions" \in DOMAIN state
             THEN firstTransition(state)
             ELSE noNextState
    ELSE IF "transitions" \in DOMAIN state
    THEN IF NoChoiceGiven(choiceId) /\ Len(state.transitions) > 0
         THEN firstTransition(state) ELSE noNextState
    ELSE noNextState

\* a scene branch that takes the first declared choice when the id matches none
resolveNextFirstChoice(state, choiceId) ==
    IF state.type = "scene" /\ "choices" \in DOMAIN state
    THEN LET c == FindChoice(state.choices, choiceId)
         IN  IF c # 0 THEN [error |-> "none", next |-> state.choices[1].next]
             ELSE IF NoChoiceGiven(choiceId) /\ "transitions" \in DOMAIN state
             THEN firstTransition(state)
             ELSE noNextState
    ELSE IF state.type = "hub" /\ "transitions" \in DOMAIN state
    THEN IF NoChoiceGiven(choiceId) /\ Len(state.transitions) > 0
         THEN firstTransition(state) ELSE noNextState
    ELSE IF state.type \in {"ai_dialogue", "system"} /\ "transitions" \in DOMAIN state
    THEN firstTransition(state)
    ELSE noNextState

\* the branches of StateMachine.transition that compute nextState
resolveNext(state, choiceId) ==
    IF state.type = "scene" /\ "choices" \in DOMAIN state
    THEN LET c == FindChoice(state.choices, choiceId)
         IN  IF c # 0 THEN [error |-> "none", next |-> state.choices[c].next]
             ELSE IF NoChoiceGiven(choiceId) /\ "transitions" \in DOMAIN state
             THEN firstTransition(state)
             ELSE noNextState
    ELSE IF state.type = "hub" /\ "transitions" \in DOMAIN state
    THEN IF NoChoiceGiven(choiceId) /\ Len(state.transitions) > 0
         THEN firstTransition(state) ELSE noNextState
    ELSE IF state.type = "ai_dialogue" /\ "transitions" \in DOMAIN state
    THEN firstTransition(state)
    ELSE IF state.type = "system" /\ "transitions" \in DOMAIN state
    THEN firstTransition(state)
    ELSE noNextState

\* a failing transition that has already logged its history record
transitionLogsFirst(machine, choiceId, timestamp) ==
    LET r == resolveNext(machine.states[machine.currentState], choiceId)
        logged == Append(machine.history,
                         [from |-> machine.currentState, to |-> r.next,
                          choice |-> choiceId, timestamp |-> timestamp])
    IN  IF r.error # "none"
        THEN [currentState |-> machine.currentState, history |-> logged, error |-> r.error]
        ELSE IF r.next = ""
        THEN [currentState |-> machine.currentState, history |-> logged,
              error |-> "NoValidTransition"]
        ELSE [currentState |-> r.next, history |-> logged, error |-> "none"]

\* StateMachine.transition: cursor and history after the call, and the error
\* it threw ("none" when it returned)
transition(machine, choiceId, timestamp) ==
    IF machine.currentState \notin DOMAIN machine.states
    THEN [currentState |-> machine.currentState, history |-> machine.history,
          error |-> "StateNotFound"]
    ELSE LET r == resolveNext(machine.states[machine.currentState], choiceId)
         IN  IF r.error # "none"
             THEN [currentState |-> machine.currentState, history |-> machine.history,
                   error |-> r.error]
             ELSE IF r.next = ""
             THEN [currentState |-> machine.currentState, history |-> machine.history,
                   error |-> "NoValidTransition"]
             ELSE [currentState |-> r.next,
                   history |-> Append(machine.history,
                                  [from |-> machine.currentState, to |-> r.next,
                                   choice |-> choiceId, timestamp |-> timestamp]),
                   error |-> "none"]

\* the orchestrator's state machine as a value: content plus cursor and history
Machine(cur, hist) ==
    [states |-> StateMachineData.states, currentState |-> cur, history |-> hist]

\* no call of the state machine made yet
NoNav == [op |-> "none"]

\* the StateMachine constructor: cursor on the entry state, empty history
NavStart(enabled) ==
    /\ currentState = StateMachineData.entry_state
    /\ history = << >>
    /\ now = 0
    /\ nav = NoNav
    /\ aiEnabled = enabled

\* the choices container before anything is rendered
NoScreen == [kind |-> "none", node |-> ""]

\* a GameEngine fresh from initialize(): nothing rendered, no remote call in
\* flight, no timer pending
UiStart ==
    /\ engine = "part_003"
    /\ screen = NoScreen
    /\ flights = << >>
    /\ timers = << >>
    /\ listeners = << >>

(***************************************************************************)
(* AIWorker.getNPCProfile in its two variants, and the profile cache       *)
(***************************************************************************)
\* core/npcs.json and prologue/viesti4.json as handed to the AIWorker
\* constructor: base records carry `id` and the Finnish fields, AI-persona
\* records carry `id`
GameData ==
    [loaded |-> TRUE,
     npcs |-> << [id |-> "trepov", Nimi |-> "Dmitri Trepov",
                  Puhetapa |-> "terse, commanding", Tausta |-> "governor"],
                 [id |-> "kf", Nimi |-> "K.F."] >>,
     aiProfiles |-> << [id |-> "trepov", persona |-> "trepov persona"],
                       [id |-> "kf", persona |-> "kf persona"] >>]

\* the characters a profile is asked for
CharacterIds == {"trepov", "kf", "samsonov", "sokolov"}

\* AIWorker.getNPCName
getNPCName(npcId) ==
    CASE npcId = "trepov"   -> "Dmitri Trepov"
      [] npcId = "kf"       -> "K.F."
      [] npcId = "samsonov" -> "Samsonov"
      [] npcId = "sokolov"  -> "Sokolov"
      [] OTHER              -> npcId

\* String.prototype.toLowerCase on the names of the content
toLowerCase(str) ==
    CASE str = "Dmitri Trepov"     -> "dmitri trepov"
      [] str = "Trepov"            -> "trepov"
      [] str = "K.F."              -> "k.f."
      [] str = "Samsonov"          -> "samsonov"
      [] str = "Kenraali Samsonov" -> "kenraali samsonov"
      [] str = "Sokolov"           -> "sokolov"
      [] OTHER                     -> str

\* String.prototype.includes on the lowercased names of the content
includes(str, part) ==
    \/ str = part
    \/ <<str, part>> \in { <<"dmitri trepov", "trepov">>,
                           <<"kenraali samsonov", "samsonov">> }

\* a Nimi that is not a string (toLowerCase is not a function of it)
NotAString == "<number>"

\* the find callback of the lenient worker: does the record carry the name
\* (throws when Nimi is not a string)
nameMatch(n, npcId) ==
    IF "Nimi" \notin DOMAIN n THEN [error |-> "none", hit |-> FALSE]
    ELSE IF n.Nimi = NotAString THEN [error |-> "TypeError", hit |-> FALSE]
    ELSE LET name       == toLowerCase(n.Nimi)
             searchName == toLowerCase(getNPCName(npcId))
         IN  [error |-> "none",
              hit |-> \/ name = searchName
                      \/ includes(name, searchName)
                      \/ includes(searchName, name)]

RECURSIVE findByName(_, _, _)
\* npcList.find(...) of the lenient worker from index i on: the index found
\* (0 if none) or the error thrown on the way
findByName(list, npcId, i) ==
    IF i > Len(list) THEN [error |-> "none", index |-> 0]
    ELSE LET m == nameMatch(list[i], npcId)
         IN  IF m.error # "none" THEN [error |-> m.error, index |-> 0]
             ELSE IF m.hit THEN [error |-> "none", index |-> i]
             ELSE findByName(list, npcId, i + 1)

\* list.find(n => n.id === npcId): index of the first such record, 0 if none
findById(list, npcId) ==
    LET S == {i \in 1..Len(list) : IF "id" \in DOMAIN list[i]
                                   THEN list[i].id = npcId ELSE FALSE}
    IN  IF S = {} THEN 0 ELSE CHOOSE i \in S : \A j \in S : i <= j

\* value || fallback for an optional, possibly empty field
OrElse(rec, key, fallback) ==
    IF key \in DOMAIN rec /\ rec[key] # "" THEN rec[key] ELSE fallback

\* the fallback profile of the lenient worker
fallbackProfile(npcId) ==
    [k \in {"id", "name", "personality", "goals", "background", "role"} |->
        CASE k = "id"          -> npcId
          [] k = "name"        -> getNPCName(npcId)
          [] k = "personality" -> "formal, diplomatic"
          [] k = "goals"       -> "complete mission"
          [] k = "background"  -> "Russian official"
          [] OTHER             -> "Official"]

\* the base profile the lenient worker builds from a Finnish record
lenientBaseProfile(npcData, npcId) ==
    [k \in {"id", "name", "background", "motivations", "speech_style", "role", "phase"} |->
        CASE k = "id"           -> npcId
          [] k = "name"         -> npcData.Nimi
          [] k = "background"   -> OrElse(npcData, "Tausta", fallbackProfile(npcId)["background"])
          [] k = "motivations"  -> OrElse(npcData, "Motivaatiot", "")
          [] k = "speech_style" -> OrElse(npcData, "Puhetapa", fallbackProfile(npcId)["personality"])
          [] k = "role"         -> OrElse(npcData, "Rooli", fallbackProfile(npcId)["role"])
          [] OTHER              -> OrElse(npcData, "Kasikirjoituksen_vaihe", "")]

\* a profile without a personality takes its speech style
withPersonality(profile) ==
    IF OrElse(profile, "personality", "") = "" /\ OrElse(profile, "speech_style", "") # ""
    THEN ObjectAssign(profile, [k \in {"personality"} |-> profile["speech_style"]])
    ELSE profile

\* AIWorker.getNPCProfile of the simplified worker: the profile returned and
\* the cache after the call (it never throws)
lenientGetNPCProfile(data, cache, npcId) ==
    IF npcId \in DOMAIN cache
    THEN [error |-> "none", profile |-> cache[npcId], cache |-> cache]
    ELSE LET found == IF data.loaded THEN findByName(data.npcs, npcId, 1)
                      ELSE [error |-> "none", index |-> 0]
             ai    == findById(data.aiProfiles, npcId)
             base  == IF found.index = 0 THEN EmptyMap
                      ELSE lenientBaseProfile(data.npcs[found.index], npcId)
             merged == ObjectAssign(ObjectAssign(fallbackProfile(npcId), base),
                                    IF ai = 0 THEN EmptyMap ELSE data.aiProfiles[ai])
             profile == IF found.error # "none" THEN fallbackProfile(npcId)
                        ELSE withPersonality(merged)
         IN  [error |-> "none", profile |-> profile,
              cache |-> ObjectAssign(cache, [k \in {npcId} |-> profile])]

\* aiProfile?.field || baseProfile.field
overridden(base, aiRec, key) ==
    IF OrElse(aiRec, key, "") # "" THEN aiRec[key]
    ELSE IF key \in DOMAIN base THEN base[key] ELSE "<undefined>"

\* a strict resolve that notes the character in the cache before it looks
\* the base record up
strictGetNPCProfileCachesEarly(data, cache, npcId) ==
    IF npcId \in DOMAIN cache
    THEN [error |-> "none", profile |-> cache[npcId], cache |-> cache]
    ELSE IF ~data.loaded
    THEN [error |-> "NPC data not loaded", profile |-> EmptyMap, cache |-> cache]
    ELSE LET b  == findById(data.npcs, npcId)
             ai == findById(data.aiProfiles, npcId)
             aiRec == IF ai = 0 THEN EmptyMap ELSE data.aiProfiles[ai]
         IN  IF b = 0
             THEN [error |-> "NPC not found", profile |-> EmptyMap,
                   cache |-> ObjectAssign(cache, [k \in {npcId} |-> EmptyMap])]
             ELSE LET base == data.npcs[b]
                      full == ObjectAssign(ObjectAssign(base, aiRec),
                                [k \in {"persona", "alignment_behavior",
                                        "dialogue_output_rules"} |->
                                    overridden(base, aiRec, k)])
                  IN  [error |-> "none", profile |-> full,
                       cache |-> ObjectAssign(cache, [k \in {npcId} |-> full])]

\* AIWorker.getNPCProfile of the rule-table worker: the profile returned, the
\* cache after the call and the error thrown
strictGetNPCProfile(data, cache, npcId) ==
    IF npcId \in DOMAIN cache
    THEN [error |-> "none", profile |-> cache[npcId], cache |-> cache]
    ELSE IF ~data.loaded
    THEN [error |-> "NPC data not loaded", profile |-> EmptyMap, cache |-> cache]
    ELSE LET b  == findById(data.npcs, npcId)
             ai == findById(data.aiProfiles, npcId)
             aiRec == IF ai = 0 THEN EmptyMap ELSE data.aiProfiles[ai]
         IN  IF b = 0
             THEN [error |-> "NPC not found", profile |-> EmptyMap, cache |-> cache]
             ELSE LET base == data.npcs[b]
                      full == ObjectAssign(ObjectAssign(base, aiRec),
                                [k \in {"persona", "alignment_behavior",
                                        "dialogue_output_rules"} |->
                                    overridden(base, aiRec, k)])
                  IN  [error |-> "none", profile |-> full,
                       cache |-> ObjectAssign(cache, [k \in {npcId} |-> full])]

\* getNPCProfile of the worker in use
getNPCProfile(w, data, cache, npcId) ==
    IF w = "rules" THEN strictGetNPCProfile(data, cache, npcId)
    ELSE lenientGetNPCProfile(data, cache, npcId)

\* new Map(): the empty profile cache
EmptyCache == [k \in {} |-> EmptyMap]

\* the AIWorker constructor with the content of the game
ProfileStart ==
    /\ gameData = GameData
    /\ npcCache = EmptyCache

(***************************************************************************)
(* Inputs of the operations.                                               *)
(***************************************************************************)
\* effects objects handed to applyEffects directly
DirectEffects ==
    { [npc_opinions |-> [k \in {"trepov"} |-> -75]],
      [npc_opinions |-> [k \in {"kf"} |-> -68]],
      [factions     |-> [k \in {"RUS", "BRIT"} |-> IF k = "RUS" THEN 150 ELSE -150],
       npc_opinions |-> [k \in {"kf"} |-> 150]],
      [npc_opinions |-> [k \in {"trepov", "sokolov"} |-> IF k = "trepov" THEN -150 ELSE 7]],
      [player_traits |-> [k \in {"CUNNING"} |-> -1],
       flags         |-> [k \in {"secret"} |-> FALSE]] }

\* analyses the remote model can hand back (after AIClient.parseResponse)
AIAnalyses ==
    { [overall_tone |-> List(<<"loyal">>),
       detected_stance_towards_russia |-> Scalar("friendly")],
      [overall_tone |-> List(<<"critical">>),
       detected_stance_towards_russia |-> Scalar("hostile")],
      [overall_tone |-> List(<<"loyal", "critical">>),
       detected_stance_towards_russia |-> Scalar("neutral")],
      [overall_tone |-> List(<<"neutral">>),
       detected_stance_towards_russia |-> Scalar("neutral"),
       cooperativeness |-> Scalar("medium")],
      [overall_tone |-> List(<<"angry">>),
       detected_stance_towards_russia |-> Scalar("hostile")],
      [overall_tone |-> Scalar("critical"),
       detected_stance_towards_russia |-> Scalar("neutral")] }

\* utterances the player can type
PlayerTexts ==
    { {}, {"duty"}, {"duty", "caution"}, {"caution"}, {"refusal"}, {"agreement"} }

\* hubs of the narrative: the character offered for dialogue and the scene id
\* the orchestrator derives from the hub's description
Hubs ==
    { <<"trepov", "2_trepov_meeting">>, <<"kf", "4_kf_meeting">>,
      <<"trepov", "6_departure">>, <<"kf", "2_trepov_meeting">> }

\* player_traits stay within the cap of the model
TraitsWithin(gs) ==
    \A t \in DOMAIN gs.player_traits :
        gs.player_traits[t] >= -MaxTrait /\ gs.player_traits[t] <= MaxTrait

(***************************************************************************)
(* The orchestrator's AI dialogue turn and the diplomacy operations.       *)
(***************************************************************************)
Idle ==
    [pc |-> "idle", npc |-> "", scene |-> "", text |-> {}, analysis |-> EmptyMap,
     lookup |-> getDefaultEffects, effects |-> getDefaultEffects]

NoCall == [op |-> "none"]

Init ==
    /\ gameState = initializeGameState
    /\ moduleDiplomacy = ModuleDiplomacy
    /\ worker \in {"rules", "simplified"}
    /\ turn = Idle
    /\ ops = 0
    /\ NavStart(TRUE)
    /\ UiStart
    /\ ProfileStart
    /\ call = NoCall

\* a direct call of DiplomacyEngine.applyEffects
ApplyEffectsDirect(effects) ==
    /\ turn.pc \in {"idle", "inflight"}
    /\ ops < MaxOps
    /\ TraitsWithin(applyEffects(gameState, effects))
    /\ gameState' = applyEffects(gameState, effects)
    /\ ops' = ops + 1
    /\ UNCHANGED <<moduleDiplomacy, worker, turn, call>>
    /\ UNCHANGED navVars
    /\ UNCHANGED <<uiVars, profileVars>>

\* GameEngine.handleChoice: DiplomacyEngine.applyChoice(sceneId, choiceId)
ApplyChoice(sceneId, choiceId) ==
    /\ turn.pc \in {"idle", "inflight"}
    /\ ops < MaxOps
    /\ TraitsWithin(applyChoice(gameState, moduleDiplomacy, sceneId, choiceId))
    /\ gameState' = applyChoice(gameState, moduleDiplomacy, sceneId, choiceId)
    /\ ops' = ops + 1
    /\ UNCHANGED <<moduleDiplomacy, worker, turn, call>>
    /\ UNCHANGED navVars
    /\ UNCHANGED <<uiVars, profileVars>>

\* a call of DiplomacyEngine.applyAIDialogue(sceneId, analysis)
ApplyAIDialogue(sceneId, analysis) ==
    /\ turn.pc \in {"idle", "inflight"}
    /\ ops < MaxOps
    /\ TraitsWithin(applyAIDialogue(gameState, moduleDiplomacy, sceneId, analysis))
    /\ gameState' = applyAIDialogue(gameState, moduleDiplomacy, sceneId, analysis)
    /\ ops' = ops + 1
    /\ UNCHANGED <<moduleDiplomacy, worker, turn, call>>
    /\ UNCHANGED navVars
    /\ UNCHANGED <<uiVars, profileVars>>

\* GameEngine.handleAIDialogueSubmit up to the remote call of startDialogue;
\* the rule-table worker throws first when the character is out of scope
Submit(npcId, sceneId, playerText) ==
    /\ turn.pc = "idle"
    /\ ops < MaxOps
    /\ ops' = ops + 1
    /\ IF worker = "rules" /\ ~isNPCAllowedInScene(npcId, sceneId)
       THEN turn' = Idle
       ELSE turn' = [Idle EXCEPT !.pc = "inflight", !.npc = npcId,
                                 !.scene = sceneId, !.text = playerText]
    /\ UNCHANGED <<gameState, moduleDiplomacy, worker, call>>
    /\ UNCHANGED navVars
    /\ UNCHANGED <<uiVars, profileVars>>

\* the remote call answers: rule-table AIWorker.startDialogue steps 4 and 5
ResolveRules(analysis) ==
    /\ turn.pc = "inflight"
    /\ worker = "rules"
    /\ LET lookup  == calculateDiplomacyEffects(moduleDiplomacy, turn.npc,
                                                turn.scene, analysis)
           m       == matchedMapping(moduleDiplomacy, turn.scene, analysis)
           guarded == applyFallbackProtections(turn.npc, lookup, gameState)
       IN  /\ TraitsWithin(applyEffects(gameState, guarded))
           /\ turn' = [turn EXCEPT !.pc = "returned", !.analysis = analysis,
                                   !.lookup = lookup, !.effects = guarded]
           /\ moduleDiplomacy' = aliasedContent(moduleDiplomacy, turn.scene, m, guarded)
    /\ UNCHANGED <<gameState, worker, ops, call>>
    /\ UNCHANGED navVars
    /\ UNCHANGED <<uiVars, profileVars>>

\* the remote call answers: simplified AIWorker.startDialogue after the fetch
ResolveSimplified ==
    /\ turn.pc = "inflight"
    /\ worker = "simplified"
    /\ LET analysis == analyzePlayerResponse(turn.text)
           effects  == simpleCalculateDiplomacyEffects(turn.npc, turn.scene, analysis)
       IN  /\ TraitsWithin(applyEffects(gameState, effects))
           /\ turn' = [turn EXCEPT !.pc = "returned", !.analysis = analysis,
                                   !.lookup = effects, !.effects = effects]
    /\ UNCHANGED <<gameState, moduleDiplomacy, worker, ops, call>>
    /\ UNCHANGED navVars
    /\ UNCHANGED <<uiVars, profileVars>>

\* the remote call fails or times out: startDialogue throws, the catch block
\* of handleAIDialogueSubmit applies nothing
ResolveFail ==
    /\ turn.pc = "inflight"
    /\ turn' = Idle
    /\ UNCHANGED <<gameState, moduleDiplomacy, worker, ops, call>>
    /\ UNCHANGED navVars
    /\ UNCHANGED <<uiVars, profileVars>>

\* handleAIDialogueSubmit after the await: diplomacy.applyEffects(result.diplomacyEffects)
ApplyTurn ==
    /\ turn.pc = "returned"
    /\ gameState' = applyEffects(gameState, turn.effects)
    /\ turn' = Idle
    /\ UNCHANGED <<moduleDiplomacy, worker, ops, call>>
    /\ UNCHANGED navVars
    /\ UNCHANGED <<uiVars, profileVars>>

Next ==
    \/ \E effects \in DirectEffects : ApplyEffectsDirect(effects)
    \/ \E sceneId \in SceneIds, choiceId \in ChoiceIds : ApplyChoice(sceneId, choiceId)
    \/ \E sceneId \in SceneIds, analysis \in AIAnalyses : ApplyAIDialogue(sceneId, analysis)
    \/ \E hub \in Hubs, playerText \in PlayerTexts : Submit(hub[1], hub[2], playerText)
    \/ \E analysis \in AIAnalyses : ResolveRules(analysis)
    \/ ResolveSimplified
    \/ ResolveFail
    \/ ApplyTurn

Spec == Init /\ [][Next]_vars

(***************************************************************************)
(* The rule lookup as functions: matchesCondition, calculateDiplomacy-     *)
(* Effects and applyAIDialogue called on drawn conditions and analyses.    *)
(***************************************************************************)
Range(seq) == {seq[i] : i \in 1..Len(seq)}

SeqsUpTo(S, n) == UNION {[1..k -> S] : k \in 0..n}

Tones == {"loyal", "neutral", "critical"}

\* expected entries for overall_tone: a list of tones or a single tone
ToneExpectations == {List(q) : q \in SeqsUpTo(Tones, MaxLen)} \cup {Scalar(t) : t \in Tones}

\* analysis values for overall_tone: missing, a single tone or a list of tones
ToneValues ==
    {Undefined} \cup {Scalar(t) : t \in Tones} \cup {List(q) : q \in SeqsUpTo(Tones, MaxLen)}

StanceExpectations == {Scalar("hostile"), List(<<"hostile">>)}

StanceValues == {Undefined, Scalar("hostile"), Scalar("neutral")}

\* conditions: overall_tone entry first, stance entry second, either may be absent
Conditions ==
    { << >> }
    \cup { << [key |-> "overall_tone", expected |-> e] >> : e \in ToneExpectations }
    \cup { << [key |-> "detected_stance_towards_russia", expected |-> e] >> :
              e \in StanceExpectations }
    \cup { << [key |-> "overall_tone", expected |-> e1],
              [key |-> "detected_stance_towards_russia", expected |-> e2] >> :
              e1 \in ToneExpectations, e2 \in StanceExpectations }

DrawnAnalysis(tone, stance) ==
    [k \in {"overall_tone", "detected_stance_towards_russia"} |->
        IF k = "overall_tone" THEN tone ELSE stance]

\* the content with the first mapping of the Trepov scene carrying a drawn condition
ContentWithCondition(condition) ==
    [ModuleDiplomacy EXCEPT !.acts[1].ai_dialogue.effects_mapping[1].condition = condition]

RuleScenes == {"2_trepov_meeting", "6_departure", "9_unknown"}

InitRules ==
    /\ gameState = initializeGameState
    /\ worker = "rules"
    /\ turn = Idle
    /\ ops = 0
    /\ NavStart(TRUE)
    /\ UiStart
    /\ ProfileStart
    /\ \E condition \in Conditions, tone \in ToneValues, stance \in StanceValues,
          sceneId \in RuleScenes :
          /\ moduleDiplomacy = ContentWithCondition(condition)
          /\ call = [op |-> "input", condition |-> condition,
                     analysis |-> DrawnAnalysis(tone, stance), scene |-> sceneId]

CallMatchesCondition ==
    /\ call.op = "input"
    /\ call' = [op |-> "matchesCondition", condition |-> call.condition,
                analysis |-> call.analysis, scene |-> call.scene,
                result |-> matchesCondition(call.condition, call.analysis)]
    /\ UNCHANGED <<gameState, moduleDiplomacy, worker, turn, ops>>
    /\ UNCHANGED navVars
    /\ UNCHANGED <<uiVars, profileVars>>

CallEngineMatchesCondition ==
    /\ call.op = "input"
    /\ call' = [op |-> "engineMatchesCondition", condition |-> call.condition,
                analysis |-> call.analysis, scene |-> call.scene,
                result |-> engineMatchesCondition(call.condition, call.analysis)]
    /\ UNCHANGED <<gameState, moduleDiplomacy, worker, turn, ops>>
    /\ UNCHANGED navVars
    /\ UNCHANGED <<uiVars, profileVars>>

CallCalculateDiplomacyEffects ==
    /\ call.op = "input"
    /\ call' = [op |-> "calculateDiplomacyEffects", condition |-> call.condition,
                analysis |-> call.analysis, scene |-> call.scene,
                result |-> calculateDiplomacyEffects(moduleDiplomacy, "trepov",
                                                     call.scene, call.analysis)]
    /\ UNCHANGED <<gameState, moduleDiplomacy, worker, turn, ops>>
    /\ UNCHANGED navVars
    /\ UNCHANGED <<uiVars, profileVars>>

CallApplyAIDialogue ==
    /\ call.op = "input"
    /\ gameState' = applyAIDialogue(gameState, moduleDiplomacy, call.scene, call.analysis)
    /\ call' = [op |-> "applyAIDialogue", condition |-> call.condition,
                analysis |-> call.analysis, scene |-> call.scene,
                before |-> gameState]
    /\ UNCHANGED <<moduleDiplomacy, worker, turn, ops>>
    /\ UNCHANGED navVars
    /\ UNCHANGED <<uiVars, profileVars>>

NextRules ==
    \/ CallMatchesCondition
    \/ CallEngineMatchesCondition
    \/ CallCalculateDiplomacyEffects
    \/ CallApplyAIDialogue

SpecRules == InitRules /\ [][NextRules]_vars

(***************************************************************************)
(* The anti-spiral guard as a function: applyFallbackProtections called on *)
(* every current opinion and a range of opinion deltas, then applied.      *)
(***************************************************************************)
OtherNpc(npcId) == IF npcId = "trepov" THEN "kf" ELSE "trepov"

\* an effects object whose npc_opinions names the dialogue character with
\* delta d (or not at all) and the other character with a penalty
DrawnEffects(npcId, named, d) ==
    [factions      |-> [k \in {"RUS"} |-> -20],
     player_traits |-> [k \in {"INDEPENDENCE"} |-> 1],
     npc_opinions  |-> [k \in (IF named THEN {npcId} ELSE {}) \cup {OtherNpc(npcId)} |->
                           IF k = npcId THEN d ELSE -60],
     flags         |-> [k \in {"insulted_trepov"} |-> TRUE]]

InitGuard ==
    /\ moduleDiplomacy = ModuleDiplomacy
    /\ worker = "rules"
    /\ turn = Idle
    /\ ops = 0
    /\ NavStart(TRUE)
    /\ UiStart
    /\ ProfileStart
    /\ \E npcId \in NpcIds, c \in -100..100, d \in -MaxPenalty..MaxBonus, named \in BOOLEAN :
          /\ named \/ d = 0
          /\ gameState = [initializeGameState EXCEPT
                              !.npc_opinions[npcId] = c,
                              !.npc_opinions[OtherNpc(npcId)] = -30]
          /\ call = [op |-> "input", npc |-> npcId,
                     effects |-> DrawnEffects(npcId, named, d)]

CallApplyFallbackProtections ==
    /\ call.op = "input"
    /\ call' = [op |-> "applyFallbackProtections", npc |-> call.npc,
                effects |-> call.effects, before |-> gameState,
                result |-> applyFallbackProtections(call.npc, call.effects, gameState)]
    /\ UNCHANGED <<gameState, moduleDiplomacy, worker, turn, ops>>
    /\ UNCHANGED navVars
    /\ UNCHANGED <<uiVars, profileVars>>

CallApplyGuarded ==
    /\ call.op = "applyFallbackProtections"
    /\ gameState' = applyEffects(gameState, call.result)
    /\ call' = [call EXCEPT !.op = "applied"]
    /\ UNCHANGED <<moduleDiplomacy, worker, turn, ops>>
    /\ UNCHANGED navVars
    /\ UNCHANGED <<uiVars, profileVars>>

NextGuard ==
    \/ CallApplyFallbackProtections
    \/ CallApplyGuarded

SpecGuard == InitGuard /\ [][NextGuard]_vars

(***************************************************************************)
(* The orchestrator's navigation: the StateMachine API, the continue       *)
(* button and navigateBack, each followed by the state processing the code *)
(* runs.                                                                   *)
(***************************************************************************)
MaxClock == 1

\* AIWorker.getNPCProfile throws: only the strict worker, for a character
\* without a base record
profileThrows(npcId) == worker = "rules" /\ npcId \notin BaseNpcIds

\* handleSceneState: state.choices?.[0]?.next || state.transitions?.[0]?.to
nextTransition(state) ==
    IF "choices" \in DOMAIN state /\ Len(state.choices) > 0
    THEN state.choices[1].next
    ELSE IF "transitions" \in DOMAIN state /\ Len(state.transitions) > 0
    THEN state.transitions[1].to
    ELSE ""

\* handleSceneState up to its rendering: the newer orchestrator fetches the
\* profile of the next hub's character when an AI worker exists, outside any
\* try block
handleSceneState(machine) ==
    LET state == machine.states[machine.currentState]
        nxt   == nextTransition(state)
        hubAhead == /\ nxt \in DOMAIN machine.states
                    /\ machine.states[nxt].type = "hub"
                    /\ "ai_dialogue" \in DOMAIN machine.states[nxt]
    IN  [currentState |-> machine.currentState, history |-> machine.history,
         error |-> IF /\ engine = "part_003" /\ nxt # "" /\ aiEnabled /\ hubAhead
                      /\ profileThrows(machine.states[nxt].ai_dialogue.npc_id)
                   THEN "ProfileError" ELSE "none"]

\* handleHubState offers the dialogue (and stays) instead of skipping
hubOffersDialogue(state) ==
    /\ "ai_dialogue" \in DOMAIN state
    /\ aiEnabled
    /\ ~profileThrows(state.ai_dialogue.npc_id)

RECURSIVE processCurrentState(_, _)
\* GameEngine.processCurrentState with handleSystemState, handleHubState and
\* handleAIDialogueState: automatic nodes transition and are processed again
processCurrentState(machine, timestamp) ==
    LET state == machine.states[machine.currentState]
        stay  == [currentState |-> machine.currentState, history |-> machine.history,
                  error |-> "none"]
        moved == transition(machine, NoChoice, timestamp)
        auto  == IF moved.error # "none" THEN moved
                 ELSE processCurrentState(
                        [machine EXCEPT !.currentState = moved.currentState,
                                        !.history = moved.history], timestamp)
    IN  CASE state.type = "system"      -> auto
          [] state.type = "scene"       -> handleSceneState(machine)
          [] state.type = "hub"         -> IF hubOffersDialogue(state) THEN stay ELSE auto
          [] state.type = "ai_dialogue" -> auto
          [] OTHER                      -> stay

\* history.pop() without the cursor reset
poppedKeepsCursor(machine) ==
    [machine EXCEPT !.history = SubSeq(machine.history, 1, Len(machine.history) - 1)]

\* history.pop() followed by the cursor reset
popped(machine) ==
    [machine EXCEPT !.currentState = machine.history[Len(machine.history)].from,
                    !.history = SubSeq(machine.history, 1, Len(machine.history) - 1)]

\* navigateBack without the empty-history check: lastTransition is undefined
\* and reading its fields throws
navigateBackUnchecked(machine, timestamp) ==
    IF Len(machine.history) = 0
    THEN [currentState |-> machine.currentState, history |-> machine.history,
          error |-> "TypeError"]
    ELSE processCurrentState(popped(machine), timestamp)

\* GameEngine.navigateBack
navigateBack(machine, timestamp) ==
    IF Len(machine.history) = 0
    THEN [currentState |-> machine.currentState, history |-> machine.history,
          error |-> "none"]
    ELSE processCurrentState(popped(machine), timestamp)

\* the continue button is on screen: a scene without choices that declares
\* transitions
continueShown(state) ==
    /\ state.type = "scene"
    /\ (IF "choices" \in DOMAIN state THEN Len(state.choices) = 0 ELSE TRUE)
    /\ (IF "transitions" \in DOMAIN state THEN Len(state.transitions) > 0 ELSE FALSE)

\* the continue button's callback: transition() then processCurrentState()
continueClicked(machine, timestamp) ==
    LET moved == transition(machine, NoChoice, timestamp)
    IN  IF moved.error # "none" THEN moved
        ELSE processCurrentState(
               [machine EXCEPT !.currentState = moved.currentState,
                               !.history = moved.history], timestamp)

\* the record of the last call: what was called, on which cursor and history,
\* and the error it threw
NavCall(op, choiceId, r) ==
    [op |-> op, choice |-> choiceId, from |-> currentState, before |-> history,
     error |-> r.error]

InitNav ==
    /\ gameState = initializeGameState
    /\ moduleDiplomacy = ModuleDiplomacy
    /\ worker \in {"rules", "simplified"}
    /\ turn = Idle
    /\ ops = 0
    /\ call = NoCall
    /\ \E enabled \in BOOLEAN : NavStart(enabled)
    /\ UiStart
    /\ ProfileStart

\* stateMachine.transition(choiceId)
Transition(choiceId) ==
    LET r == transition(Machine(currentState, history), choiceId, now)
    IN  /\ currentState' = r.currentState
        /\ history' = r.history
        /\ nav' = NavCall("transition", choiceId, r)
        /\ UNCHANGED <<gameState, moduleDiplomacy, worker, turn, ops, call, now, aiEnabled>>
        /\ UNCHANGED <<uiVars, profileVars>>

\* a click on the continue button of a scene without choices
ContinueClick ==
    /\ continueShown(StateMachineData.states[currentState])
    /\ LET r == continueClicked(Machine(currentState, history), now)
       IN  /\ currentState' = r.currentState
           /\ history' = r.history
           /\ nav' = NavCall("continue", NoChoice, r)
    /\ UNCHANGED <<gameState, moduleDiplomacy, worker, turn, ops, call, now, aiEnabled>>
    /\ UNCHANGED <<uiVars, profileVars>>

\* engine.navigateBack()
NavigateBack ==
    /\ LET r == navigateBack(Machine(currentState, history), now)
       IN  /\ currentState' = r.currentState
           /\ history' = r.history
           /\ nav' = NavCall("navigateBack", NoChoice, r)
    /\ UNCHANGED <<gameState, moduleDiplomacy, worker, turn, ops, call, now, aiEnabled>>
    /\ UNCHANGED <<uiVars, profileVars>>

\* time passes between two calls (Date.now())
Tick ==
    /\ now < MaxClock
    /\ now' = now + 1
    /\ UNCHANGED <<gameState, moduleDiplomacy, worker, turn, ops, call,
                   currentState, history, nav, aiEnabled>>
    /\ UNCHANGED <<uiVars, profileVars>>

NextNav ==
    \/ \E choiceId \in ChoiceArgs : Transition(choiceId)
    \/ ContinueClick
    \/ NavigateBack
    \/ Tick

SpecNav == InitNav /\ [][NextNav]_vars

(***************************************************************************)
(* DiplomacyEngine.applyChoice and applyEffects called on a game in        *)
(* progress, each call recorded with the state it started from.            *)
(***************************************************************************)
\* the effect table of a draft in which a choice of 6_departure has no
\* effects object yet
ModuleDiplomacyDraft ==
    [acts |-> [ModuleDiplomacy.acts EXCEPT
                 ![3] = [scene |-> "6_departure", choices |-> << [id |-> "a"] >>]]]

\* effects objects of scripted choices and of direct calls
EffectDeltas ==
    { [player_traits |-> [k \in {"INDEPENDENCE", "NEUTRALITY"} |->
                             IF k = "NEUTRALITY" THEN 110 ELSE -60]],
      [player_traits |-> [k \in {"INDEPENDENCE", "CUNNING"} |->
                             IF k = "CUNNING" THEN -1 ELSE -60]],
      [flags |-> [k \in {"secret"} |-> TRUE]],
      [flags |-> [k \in {"secret", "met_trepov"} |-> FALSE],
       factions |-> [k \in {"BRIT"} |-> -150]],
      [factions     |-> [k \in {"RUS"} |-> 70],
       npc_opinions |-> [k \in {"sokolov"} |-> 7]],
      [x \in {} |-> EmptyMap] }

InitEffects ==
    /\ gameState = initializeGameState
    /\ moduleDiplomacy \in {ModuleDiplomacy, ModuleDiplomacyDraft}
    /\ worker = "rules"
    /\ turn = Idle
    /\ ops = 0
    /\ NavStart(TRUE)
    /\ UiStart
    /\ ProfileStart
    /\ call = NoCall

\* diplomacy.applyChoice(sceneId, choiceId)
CallApplyChoice(sceneId, choiceId) ==
    /\ ops < MaxOps
    /\ gameState' = applyChoice(gameState, moduleDiplomacy, sceneId, choiceId)
    /\ call' = [op |-> "applyChoice", scene |-> sceneId, choice |-> choiceId,
                before |-> gameState,
                error |-> applyChoiceError(moduleDiplomacy, sceneId, choiceId)]
    /\ ops' = ops + 1
    /\ UNCHANGED <<moduleDiplomacy, worker, turn>>
    /\ UNCHANGED navVars
    /\ UNCHANGED <<uiVars, profileVars>>

\* diplomacy.applyEffects(effects)
CallApplyEffects(effects) ==
    /\ ops < MaxOps
    /\ gameState' = applyEffects(gameState, effects)
    /\ call' = [op |-> "applyEffects", effects |-> effects, before |-> gameState,
                error |-> "none"]
    /\ ops' = ops + 1
    /\ UNCHANGED <<moduleDiplomacy, worker, turn>>
    /\ UNCHANGED navVars
    /\ UNCHANGED <<uiVars, profileVars>>

NextEffects ==
    \/ \E sceneId \in SceneIds, choiceId \in ChoiceIds : CallApplyChoice(sceneId, choiceId)
    \/ \E effects \in EffectDeltas : CallApplyEffects(effects)

SpecEffects == InitEffects /\ [][NextEffects]_vars

(***************************************************************************)
(* AIWorker.getNPCProfile called on workers built from drawn content.      *)
(***************************************************************************)
\* base record lists of core/npcs.json
NpcLists ==
    { GameData.npcs,
      << [Nimi |-> "Trepov", Puhetapa |-> "terse, commanding"],
         [Nimi |-> "Kenraali Samsonov", Puhetapa |-> "blunt", Rooli |-> "general"],
         [id |-> "sokolov"] >>,
      << [id |-> "trepov", Nimi |-> NotAString],
         [id |-> "kf", Nimi |-> "K.F.", Puhetapa |-> ""] >> }

\* AI-persona record lists of prologue/viesti4.json
AiProfileLists ==
    { GameData.aiProfiles,
      << [id |-> "kf", personality |-> ""],
         [id |-> "sokolov", personality |-> "wary"] >>,
      << >> }

InitProfile ==
    /\ gameState = initializeGameState
    /\ moduleDiplomacy = ModuleDiplomacy
    /\ worker \in {"rules", "simplified"}
    /\ turn = Idle
    /\ ops = 0
    /\ call = NoCall
    /\ NavStart(TRUE)
    /\ UiStart
    /\ gameData \in [loaded : BOOLEAN, npcs : NpcLists, aiProfiles : AiProfileLists]
    /\ npcCache = EmptyCache

\* aiWorker.getNPCProfile(npcId)
ResolveProfile(npcId) ==
    /\ LET r == getNPCProfile(worker, gameData, npcCache, npcId)
       IN  /\ npcCache' = r.cache
           /\ call' = [op |-> "getNPCProfile", npc |-> npcId, cacheBefore |-> npcCache,
                       profile |-> r.profile, error |-> r.error]
    /\ UNCHANGED <<gameState, moduleDiplomacy, worker, turn, ops, gameData>>
    /\ UNCHANGED <<navVars, uiVars>>

NextProfile == \E npcId \in CharacterIds : ResolveProfile(npcId)

SpecProfile == InitProfile /\ [][NextProfile]_vars

(***************************************************************************)
(* The dialogue analysis reducer: AIClient.parseResponse on drawn reply    *)
(* texts and AIWorker.analyzePlayerResponse on drawn utterances.           *)
(***************************************************************************)
\* longest utterance drawn, in words
MaxWords == 2

\* JSON values as JSON.parse yields them
JAbsent == [kind |-> "undefined"]

JNull == [kind |-> "null"]

JNum(n) == [kind |-> "number", value |-> n]

JStr(str) == [kind |-> "string", value |-> str]

JList(items) == [kind |-> "array", items |-> items]

JObj(fields) == [kind |-> "object", fields |-> fields]

\* JavaScript truthiness: !v is the negation
truthy(v) ==
    CASE v.kind = "string" -> v.value # ""
      [] v.kind = "number" -> v.value # 0
      [] v.kind \in {"array", "object"} -> TRUE
      [] OTHER -> FALSE

\* v[key] can be read (it throws a TypeError on null and undefined)
readable(v) == v.kind \notin {"null", "undefined"}

\* v[key] of a readable value
member(v, key) ==
    IF v.kind = "object" /\ key \in DOMAIN v.fields THEN v.fields[key] ELSE JAbsent

\* the reply the catch block of parseResponse returns
FallbackReply ==
    JObj([k \in {"response", "analysis"} |->
            IF k = "response"
            THEN JStr("Anteeksi, en voi nyt keskustella. Jatketaan myöhemmin.")
            ELSE JObj([f \in {"overall_tone", "detected_stance_towards_russia",
                              "cooperativeness"} |->
                          CASE f = "overall_tone" -> JList(<<"neutral">>)
                            [] f = "cooperativeness" -> JStr("medium")
                            [] OTHER -> JStr("neutral")])])

\* the body of the try block of parseResponse: the value parsed, or the
\* error thrown in it
tryParse(text) ==
    IF ~text.present THEN [error |-> "TypeError", parsed |-> JAbsent]
    ELSE IF text.body.kind = "garbage" THEN [error |-> "SyntaxError", parsed |-> JAbsent]
    ELSE LET parsed == text.body
         IN  IF ~readable(parsed) THEN [error |-> "TypeError", parsed |-> JAbsent]
             ELSE IF ~truthy(member(parsed, "response")) \/ ~truthy(member(parsed, "analysis"))
             THEN [error |-> "Invalid response structure", parsed |-> JAbsent]
             ELSE IF \/ ~truthy(member(member(parsed, "analysis"), "overall_tone"))
                     \/ ~truthy(member(member(parsed, "analysis"),
                                       "detected_stance_towards_russia"))
             THEN [error |-> "Missing required analysis fields", parsed |-> JAbsent]
             ELSE [error |-> "none", parsed |-> parsed]

\* a parseResponse whose catch block covers JSON.parse only: the validation
\* errors escape
parseResponseCatchesSyntaxOnly(text) ==
    LET t == tryParse(text)
    IN  IF t.error = "none" THEN [threw |-> FALSE, value |-> t.parsed]
        ELSE IF t.error = "SyntaxError" THEN [threw |-> FALSE, value |-> FallbackReply]
        ELSE [threw |-> TRUE, value |-> JAbsent]

\* AIClient.parseResponse: every error of the try block ends in the catch
\* block, which returns the fallback reply
parseResponse(text) ==
    LET t == tryParse(text)
    IN  IF t.error = "none" THEN [threw |-> FALSE, value |-> t.parsed]
        ELSE [threw |-> FALSE, value |-> FallbackReply]

\* the analysis objects a reply can carry
ReplyAnalyses ==
    { JObj([f \in {"overall_tone", "detected_stance_towards_russia", "cooperativeness"} |->
              CASE f = "overall_tone" -> tone
                [] f = "cooperativeness" -> coop
                [] OTHER -> stance]) :
        tone \in {JAbsent, JStr(""), JList(<< >>), JList(<<"loyal">>), JStr("critical")},
        stance \in {JAbsent, JStr(""), JStr("neutral"), JStr("hostile")},
        coop \in {JAbsent, JStr("high")} }

\* the JSON documents a reply text can hold
ReplyDocuments ==
    {JNull, JNum(7), JStr("ok"), JList(<< >>)} \cup
    { JObj([k \in {"response", "analysis"} |-> IF k = "response" THEN r ELSE a]) :
        r \in {JAbsent, JStr(""), JStr("Hyvä on.")},
        a \in {JAbsent, JNull, JStr("loyal")} \cup ReplyAnalyses }

\* the reply texts handed to parseResponse: missing, or a text that is not
\* JSON, or a JSON document, bare or in a markdown code fence
ReplyTexts ==
    { [present |-> FALSE, fenced |-> FALSE, body |-> [kind |-> "garbage"]] } \cup
    [present : {TRUE}, fenced : BOOLEAN, body : {[kind |-> "garbage"]} \cup ReplyDocuments]

\* the words an utterance is made of
Vocabulary ==
    {"Velvollisuus", "käsky", "RISKI", "vaarallinen", "vastustan", "Selvä", "matka"}

\* String.prototype.toLowerCase on the words of the vocabulary
lowerWord(w) ==
    CASE w = "Velvollisuus" -> "velvollisuus"
      [] w = "RISKI"        -> "riski"
      [] w = "Selvä"        -> "selvä"
      [] OTHER              -> w

\* the keyword patterns of analyzePlayerResponse that match a lowercased word
patternsMatching(w) ==
    CASE w \in {"velvollisuus", "käsky"} -> {"duty"}
      [] w \in {"riski", "vaarallinen"}  -> {"caution"}
      [] w = "vastustan"                 -> {"refusal"}
      [] w = "selvä"                     -> {"agreement"}
      [] OTHER                           -> {}

\* the keyword families lowerText.match(...) finds in an utterance
familiesIn(utterance) ==
    UNION { patternsMatching(lowerWord(utterance[i])) : i \in DOMAIN utterance }

\* the utterances drawn: up to MaxWords words
Utterances == UNION { [1..n -> Vocabulary] : n \in 0..MaxWords }

InitReducer ==
    /\ gameState = initializeGameState
    /\ moduleDiplomacy = ModuleDiplomacy
    /\ worker \in {"rules", "simplified"}
    /\ turn = Idle
    /\ ops = 0
    /\ call = NoCall
    /\ NavStart(TRUE)
    /\ UiStart
    /\ ProfileStart

\* aiClient.parseResponse(responseText)
CallParseResponse(text) ==
    /\ worker = "rules"
    /\ call' = [op |-> "parseResponse", text |-> text, result |-> parseResponse(text)]
    /\ UNCHANGED <<gameState, moduleDiplomacy, worker, turn, ops>>
    /\ UNCHANGED <<navVars, uiVars, profileVars>>

\* aiWorker.analyzePlayerResponse(playerText, npcProfile)
CallAnalyzePlayerResponse(utterance) ==
    /\ worker = "simplified"
    /\ call' = [op |-> "analyzePlayerResponse", utterance |-> utterance,
                result |-> analyzePlayerResponse(familiesIn(utterance))]
    /\ UNCHANGED <<gameState, moduleDiplomacy, worker, turn, ops>>
    /\ UNCHANGED <<navVars, uiVars, profileVars>>

NextReducer ==
    \/ \E text \in ReplyTexts : CallParseResponse(text)
    \/ \E utterance \in Utterances : CallAnalyzePlayerResponse(utterance)

SpecReducer == InitReducer /\ [][NextReducer]_vars

(***************************************************************************)
(* The orchestrator's playthrough with AI dialogue turns: the handlers of  *)
(* GameEngine in its two variants (part_003, the newer one with keyboard   *)
(* navigation, and game_engine.js), the remote call in flight and the      *)
(* timers.  Profile resolution always gives the same answer for the same   *)
(* character, so the handlers leave the profile cache out.                 *)
(***************************************************************************)
\* number of player inputs (clicks, keys, submits) in one playthrough
MaxInputs == 3

\* state.description?.match(/(\d+_\w+)/)?.[1] on the descriptions of the graph
descriptionMatch(description) ==
    CASE description = "POST 2_trepov_meeting" -> "2_trepov_meeting"
      [] OTHER -> "undefined"

\* the scene id handleAIDialogueSubmit derives from the hub
sceneIdOf(state) ==
    IF "description" \in DOMAIN state THEN descriptionMatch(state.description)
    ELSE "undefined"

\* handleChoice after applyChoice: transition(choiceId) then processCurrentState()
handleChoice(machine, timestamp, choiceId) ==
    LET moved == transition(machine, choiceId, timestamp)
    IN  IF moved.error # "none" THEN moved
        ELSE processCurrentState(
               [machine EXCEPT !.currentState = moved.currentState,
                               !.history = moved.history], timestamp)

\* handleAIDialogueSkip / endDialogue / the timer callbacks: transition()
\* then processCurrentState()
handleAIDialogueSkip(machine, timestamp) == continueClicked(machine, timestamp)

\* what the choices container shows after processCurrentState ended on a node
rendered(r, shown) ==
    LET state == StateMachineData.states[r.currentState]
        choiceless == IF "choices" \in DOMAIN state THEN Len(state.choices) = 0 ELSE TRUE
    IN  IF r.error # "none" THEN shown
        ELSE IF state.type = "scene"
        THEN IF ~choiceless THEN [kind |-> "choices", node |-> r.currentState]
             ELSE IF engine = "game_engine" THEN shown
             ELSE IF continueShown(state) THEN [kind |-> "continue", node |-> r.currentState]
             ELSE NoScreen
        ELSE IF state.type = "hub" THEN [kind |-> "dialogue", node |-> r.currentState]
        ELSE shown

\* the timers pending after processCurrentState ended on a node: the older
\* orchestrator leaves a scene without choices by a timer
scheduled(r, pending) ==
    LET state == StateMachineData.states[r.currentState]
        choiceless == IF "choices" \in DOMAIN state THEN Len(state.choices) = 0 ELSE TRUE
    IN  IF r.error = "none" /\ state.type = "scene" /\ choiceless /\ engine = "game_engine"
        THEN Append(pending, [origin |-> "scene", node |-> r.currentState])
        ELSE pending

\* the keydown listeners registered after processCurrentState ended on a
\* node: renderChoices of a scene with choices adds one, {once: true}, for
\* the number keys
registered(r, kept) ==
    LET state == StateMachineData.states[r.currentState]
        choiceless == IF "choices" \in DOMAIN state THEN Len(state.choices) = 0 ELSE TRUE
    IN  IF r.error = "none" /\ state.type = "scene" /\ ~choiceless
        THEN Append(kept, r.currentState)
        ELSE kept

\* the record of a handler that moved (or tried to move) the cursor
Moved(op, choiceId, node, r) ==
    [op |-> op, choice |-> choiceId, from |-> currentState, before |-> history,
     error |-> r.error, hub |-> node, input |-> ops]

\* the cursor, history, screen and timers after a handler that ends with
\* processCurrentState
Arrive(op, choiceId, node, r, pending, kept) ==
    /\ currentState' = r.currentState
    /\ history' = r.history
    /\ screen' = rendered(r, screen)
    /\ timers' = scheduled(r, pending)
    /\ listeners' = registered(r, kept)
    /\ nav' = Moved(op, choiceId, node, r)

\* the record of the end of a dialogue turn
TurnEnd(cause, flight, caught, analysis, after) ==
    [op |-> "turn", cause |-> cause, hub |-> flight.hub, caught |-> caught,
     analysis |-> analysis, at |-> currentState, before |-> gameState, after |-> after]

\* seq without its i-th element
RemoveAt(seq, i) == SubSeq(seq, 1, i - 1) \o SubSeq(seq, i + 1, Len(seq))

\* the analysis of the fallback reply of parseResponse
NeutralAnalysis ==
    [overall_tone |-> List(<<"neutral">>),
     detected_stance_towards_russia |-> Scalar("neutral"),
     cooperativeness |-> Scalar("medium")]

\* the analyses a remote answer carries in a playthrough
TurnAnalyses ==
    {a \in AIAnalyses : a.overall_tone \in {List(<<"loyal">>), List(<<"critical">>)}}
        \cup {NeutralAnalysis}

\* the utterances typed in a playthrough
TurnTexts == { {"duty"}, {"refusal"} }

InitTurn ==
    /\ gameState = initializeGameState
    /\ moduleDiplomacy = ModuleDiplomacy
    /\ worker \in {"rules", "simplified"}
    /\ turn = Idle
    /\ ops = 0
    /\ call = NoCall
    /\ NavStart(TRUE)
    /\ engine \in {"part_003", "game_engine"}
    /\ screen = NoScreen
    /\ flights = << >>
    /\ timers = << >>
    /\ listeners = << >>
    /\ ProfileStart

\* engine.start(): processCurrentState() on the entry state
StartGame ==
    /\ nav = NoNav
    /\ Arrive("start", NoChoice, "",
              processCurrentState(Machine(currentState, history), now), timers, listeners)
    /\ UNCHANGED <<gameState, moduleDiplomacy, worker, turn, ops, call, now, aiEnabled,
                   engine, flights, profileVars>>

\* a click on a rendered choice button: handleChoice(scene_id, choiceId) of
\* the scene the buttons were rendered for
ClickChoice(choiceId) ==
    /\ ops < MaxInputs
    /\ screen.kind = "choices"
    /\ LET scene == StateMachineData.states[screen.node]
       IN  /\ \E i \in DOMAIN scene.choices : scene.choices[i].id = choiceId
           /\ gameState' = applyChoice(gameState, moduleDiplomacy, scene.scene_id, choiceId)
           /\ Arrive("handleChoice", choiceId, "",
                     handleChoice(Machine(currentState, history), now, choiceId), timers, listeners)
    /\ ops' = ops + 1
    /\ UNCHANGED <<moduleDiplomacy, worker, turn, call, now, aiEnabled,
                   engine, flights, profileVars>>

\* a click on the continue button of a scene without choices
ClickContinue ==
    /\ ops < MaxInputs
    /\ screen.kind = "continue"
    /\ Arrive("continue", NoChoice, "",
              continueClicked(Machine(currentState, history), now), timers, listeners)
    /\ ops' = ops + 1
    /\ UNCHANGED <<gameState, moduleDiplomacy, worker, turn, call, now, aiEnabled,
                   engine, flights, profileVars>>

\* the ArrowRight key (newer orchestrator): the first choice of the current scene
ArrowRight ==
    /\ ops < MaxInputs
    /\ engine = "part_003"
    /\ nav # NoNav
    /\ LET state == StateMachineData.states[currentState]
       IN  /\ state.type = "scene"
           /\ (IF "choices" \in DOMAIN state THEN Len(state.choices) > 0 ELSE FALSE)
           /\ gameState' = applyChoice(gameState, moduleDiplomacy, state.scene_id,
                                       state.choices[1].id)
           /\ Arrive("handleChoice", state.choices[1].id, "",
                     handleChoice(Machine(currentState, history), now,
                                  state.choices[1].id), timers, << >>)
    /\ ops' = ops + 1
    /\ UNCHANGED <<moduleDiplomacy, worker, turn, call, now, aiEnabled,
                   engine, flights, profileVars>>

\* a back navigation that also starts the game state afresh
gameStateResetOnBack(gs) == initializeGameState

\* the game state after navigateBack: the handler and the processCurrentState
\* it ends with make no call on the DiplomacyEngine
gameStateAfterBack(gs) == gs

\* the ArrowLeft key (newer orchestrator): navigateBack() when there is history
ArrowLeft ==
    /\ ops < MaxInputs
    /\ engine = "part_003"
    /\ Len(history) > 0
    /\ Arrive("navigateBack", NoChoice, "",
              navigateBack(Machine(currentState, history), now), timers, << >>)
    /\ ops' = ops + 1
    /\ gameState' = gameStateAfterBack(gameState)
    /\ UNCHANGED <<moduleDiplomacy, worker, turn, call, now, aiEnabled,
                   engine, flights, profileVars>>

\* the player submits an utterance: handleAIDialogueSubmit up to the await
\* of the remote call; the rule-table worker throws at once when the
\* character is not allowed in the scene, and the catch block arms the skip
SubmitText(playerText) ==
    /\ ops < MaxInputs
    /\ screen.kind = "dialogue"
    /\ LET hub    == StateMachineData.states[screen.node]
           flight == [npc |-> hub.ai_dialogue.npc_id, scene |-> sceneIdOf(hub),
                      text |-> playerText, hub |-> screen.node, phase |-> "sent"]
       IN  IF worker = "rules" /\ ~isNPCAllowedInScene(flight.npc, flight.scene)
           THEN /\ screen' = [kind |-> "error", node |-> screen.node]
                /\ timers' = Append(timers, [origin |-> "failed", node |-> screen.node])
                /\ call' = TurnEnd("notAllowed", flight, TRUE, EmptyMap, gameState)
                /\ UNCHANGED flights
           ELSE /\ screen' = [kind |-> "loading", node |-> screen.node]
                /\ flights' = Append(flights, flight)
                /\ UNCHANGED <<timers, call>>
    /\ ops' = ops + 1
    /\ UNCHANGED <<gameState, moduleDiplomacy, worker, turn, now, aiEnabled, engine,
                   currentState, history, nav, listeners, profileVars>>

\* a click on the skip button of the dialogue: handleAIDialogueSkip()
ClickSkip ==
    /\ ops < MaxInputs
    /\ screen.kind = "dialogue"
    /\ Arrive("skip", NoChoice, screen.node,
              handleAIDialogueSkip(Machine(currentState, history), now), timers, listeners)
    /\ ops' = ops + 1
    /\ UNCHANGED <<gameState, moduleDiplomacy, worker, turn, call, now, aiEnabled,
                   engine, flights, profileVars>>

\* what handleAIDialogueSubmit does after startDialogue returned: it applies
\* the effects, then shows the continue options (newer orchestrator) or arms
\* the timer that moves on (older orchestrator)
AfterAnswer(flight, effects) ==
    /\ gameState' = applyEffects(gameState, effects)
    /\ IF engine = "part_003"
       THEN /\ screen' = [kind |-> "options", node |-> flight.hub]
            /\ UNCHANGED timers
       ELSE /\ timers' = Append(timers, [origin |-> "answered", node |-> flight.hub])
            /\ UNCHANGED screen

\* the remote call of flight i answers and the rule-table worker's
\* startDialogue finishes: parseResponse, the rule lookup, the guard
RemoteAnswersRules(i, analysis) ==
    /\ worker = "rules"
    /\ i \in DOMAIN flights
    /\ LET flight  == flights[i]
           lookup  == calculateDiplomacyEffects(moduleDiplomacy, flight.npc,
                                                flight.scene, analysis)
           m       == matchedMapping(moduleDiplomacy, flight.scene, analysis)
           guarded == applyFallbackProtections(flight.npc, lookup, gameState)
       IN  /\ moduleDiplomacy' = aliasedContent(moduleDiplomacy, flight.scene, m, guarded)
           /\ AfterAnswer(flight, guarded)
           /\ call' = TurnEnd("answered", flight, FALSE, analysis, gameState')
    /\ flights' = RemoveAt(flights, i)
    /\ UNCHANGED <<worker, turn, ops, now, aiEnabled, engine,
                   currentState, history, nav, listeners, profileVars>>

\* the remote call of flight i answers and the simplified worker's
\* startDialogue finishes: the keyword analysis of the utterance
RemoteAnswersSimplified(i) ==
    /\ worker = "simplified"
    /\ i \in DOMAIN flights
    /\ LET flight   == flights[i]
           analysis == analyzePlayerResponse(flight.text)
           effects  == simpleCalculateDiplomacyEffects(flight.npc, flight.scene, analysis)
       IN  /\ AfterAnswer(flight, effects)
           /\ call' = TurnEnd("answered", flight, FALSE, analysis, gameState')
    /\ flights' = RemoveAt(flights, i)
    /\ UNCHANGED <<moduleDiplomacy, worker, turn, ops, now, aiEnabled, engine,
                   currentState, history, nav, listeners, profileVars>>

\* the catch block of handleAIDialogueSubmit: showError and the 2 s timer
\* that calls handleAIDialogueSkip
TurnFails(i, cause) ==
    /\ i \in DOMAIN flights
    /\ screen' = [kind |-> "error", node |-> flights[i].hub]
    /\ timers' = Append(timers, [origin |-> "failed", node |-> flights[i].hub])
    /\ call' = TurnEnd(cause, flights[i], TRUE, EmptyMap, gameState)
    /\ flights' = RemoveAt(flights, i)
    /\ UNCHANGED <<gameState, moduleDiplomacy, worker, turn, ops, now, aiEnabled, engine,
                   currentState, history, nav, listeners, profileVars>>

\* the remote call of flight i fails in transport (fetch rejects or the
\* status is not ok): startDialogue throws
RemoteFails(i) ==
    /\ i \in DOMAIN flights
    /\ TurnFails(i, "transport")

\* the response headers of flight i arrive and callClaude clears its abort
\* timer; the body is still to be read
HeadersArrive(i) ==
    /\ worker = "rules"
    /\ i \in DOMAIN flights
    /\ flights[i].phase = "sent"
    /\ flights' = [flights EXCEPT ![i].phase = "body"]
    /\ UNCHANGED <<gameState, moduleDiplomacy, worker, turn, ops, call, now, aiEnabled,
                   engine, screen, timers, currentState, history, nav, listeners, profileVars>>

\* the 30 s timer of AIClient.callClaude aborts the fetch of flight i: only
\* the rule-table worker calls through AIClient, and the timer is cleared
\* once the headers have arrived
Timeout(i) ==
    /\ worker = "rules"
    /\ i \in DOMAIN flights
    /\ flights[i].phase = "sent"
    /\ TurnFails(i, "timeout")

\* a pending timer fires: transition() then processCurrentState()
TimerFires(i) ==
    /\ i \in DOMAIN timers
    /\ Arrive(IF timers[i].origin = "failed" THEN "failureSkip" ELSE "timer",
              NoChoice, timers[i].node,
              handleAIDialogueSkip(Machine(currentState, history), now),
              RemoveAt(timers, i), listeners)
    /\ UNCHANGED <<gameState, moduleDiplomacy, worker, turn, ops, call, now, aiEnabled,
                   engine, flights, profileVars>>

\* a click on "continue the conversation" (newer orchestrator):
\* continueDialogue renders the dialogue input again
ClickContinueDialogue ==
    /\ ops < MaxInputs
    /\ screen.kind = "options"
    /\ screen' = [kind |-> "dialogue", node |-> screen.node]
    /\ ops' = ops + 1
    /\ UNCHANGED <<gameState, moduleDiplomacy, worker, turn, call, now, aiEnabled, engine,
                   currentState, history, nav, flights, timers, listeners, profileVars>>

\* a click on "move on" (newer orchestrator): endDialogue()
ClickEndDialogue ==
    /\ ops < MaxInputs
    /\ screen.kind = "options"
    /\ Arrive("endDialogue", NoChoice, screen.node,
              handleAIDialogueSkip(Machine(currentState, history), now), timers, listeners)
    /\ ops' = ops + 1
    /\ UNCHANGED <<gameState, moduleDiplomacy, worker, turn, call, now, aiEnabled,
                   engine, flights, profileVars>>

\* the number keys a player presses
NumberKeys == 1..3

\* what the orchestrator holds while the listeners of one keydown run
Dispatch ==
    [gameState |-> gameState, currentState |-> currentState, history |-> history,
     screen |-> screen, timers |-> timers, added |-> << >>, nav |-> nav]

\* one number-key listener of renderChoices, registered for the choices of
\* node: onChoiceCallback(choices[num - 1].id), that is handleChoice of the
\* scene the listener was registered for, run on the machine as it is now
keyChoice(node, num, st) ==
    LET scene == StateMachineData.states[node]
        id    == scene.choices[num].id
        r     == handleChoice(Machine(st.currentState, st.history), now, id)
    IN  IF num > Len(scene.choices) THEN st
        ELSE [gameState    |-> applyChoice(st.gameState, moduleDiplomacy, scene.scene_id, id),
              currentState |-> r.currentState,
              history      |-> r.history,
              screen       |-> rendered(r, st.screen),
              timers       |-> scheduled(r, st.timers),
              added        |-> registered(r, st.added),
              nav          |-> [op |-> "keyChoice", choice |-> id,
                                from |-> st.currentState, before |-> st.history,
                                error |-> r.error, hub |-> node, input |-> ops]]

RECURSIVE deliver(_, _, _)
\* the pending listeners run in the order they were registered; an exception
\* in one does not stop the next
deliver(pending, num, st) ==
    IF pending = << >> THEN st
    ELSE deliver(Tail(pending), num, keyChoice(Head(pending), num, st))

\* a keydown of a number key: every pending {once: true} listener runs and
\* is removed; renderChoices calls made meanwhile register new ones
NumberKey(num) ==
    /\ ops < MaxInputs
    /\ listeners # << >>
    /\ LET st == deliver(listeners, num, Dispatch)
       IN  /\ gameState' = st.gameState
           /\ currentState' = st.currentState
           /\ history' = st.history
           /\ screen' = st.screen
           /\ timers' = st.timers
           /\ listeners' = st.added
           /\ nav' = st.nav
    /\ ops' = ops + 1
    /\ UNCHANGED <<moduleDiplomacy, worker, turn, call, now, aiEnabled,
                   engine, flights, profileVars>>

\* a keydown of any other key that no handler acts on: the pending
\* {once: true} listeners run, find no number and are removed
OtherKey ==
    /\ ops < MaxInputs
    /\ listeners # << >>
    /\ listeners' = << >>
    /\ ops' = ops + 1
    /\ UNCHANGED <<gameState, moduleDiplomacy, worker, turn, call, now, aiEnabled,
                   engine, screen, flights, timers, currentState, history, nav,
                   profileVars>>

NextTurn ==
    \/ StartGame
    \/ \E choiceId \in ChoiceIds : ClickChoice(choiceId)
    \/ ClickContinue
    \/ ArrowRight
    \/ ArrowLeft
    \/ \E num \in NumberKeys : NumberKey(num)
    \/ OtherKey
    \/ \E playerText \in TurnTexts : SubmitText(playerText)
    \/ ClickSkip
    \/ \E i \in 1..MaxInputs, analysis \in TurnAnalyses : RemoteAnswersRules(i, analysis)
    \/ \E i \in 1..MaxInputs : RemoteAnswersSimplified(i)
    \/ \E i \in 1..MaxInputs : RemoteFails(i)
    \/ \E i \in 1..MaxInputs : HeadersArrive(i)
    \/ \E i \in 1..MaxInputs : Timeout(i)
    \/ \E i \in 1..(2 * MaxInputs) : TimerFires(i)
    \/ ClickContinueDialogue
    \/ ClickEndDialogue

SpecTurn == InitTurn /\ [][NextTurn]_vars

\* timers fire and the abort timer of callClaude runs out; nothing obliges
\* the remote service to answer or to fail
SpecTurnFair ==
    /\ SpecTurn
    /\ WF_vars(\E i \in 1..(2 * MaxInputs) : TimerFires(i))
    /\ WF_vars(\E i \in 1..MaxInputs : Timeout(i))
    /\ WF_vars(StartGame)

(***************************************************************************)
(* The relationship tier as a function of the current opinion.             *)
(***************************************************************************)
\* a tier chain that excludes the upper limit of each band
relationshipTierStrict(opinion) ==
    IF opinion < -50 THEN "HOSTILE"
    ELSE IF opinion < -10 THEN "COLD"
    ELSE IF opinion < 9 THEN "NEUTRAL"
    ELSE IF opinion < 49 THEN "FRIENDLY"
    ELSE "ALLY"

\* the if chain of DiplomacyEngine.getRelationshipTier
relationshipTier(opinion) ==
    IF opinion <= -50 THEN "HOSTILE"
    ELSE IF opinion <= -10 THEN "COLD"
    ELSE IF opinion <= 9 THEN "NEUTRAL"
    ELSE IF opinion <= 49 THEN "FRIENDLY"
    ELSE "ALLY"

\* DiplomacyEngine.getRelationshipTier: npc_opinions[npcId] || 0
getRelationshipTier(gs, npcId) == relationshipTier(GetOr0(gs.npc_opinions, npcId))

\* opinion deltas applied between two readings of the tier
TierDeltas == {-60, 25}

InitTier ==
    /\ moduleDiplomacy = ModuleDiplomacy
    /\ worker = "rules"
    /\ turn = Idle
    /\ ops = 0
    /\ call = NoCall
    /\ NavStart(TRUE)
    /\ UiStart
    /\ ProfileStart
    /\ \E c \in -100..100 :
          gameState = [initializeGameState EXCEPT !.npc_opinions["trepov"] = c]

\* a call of getRelationshipTier(npcId)
CallGetRelationshipTier(npcId) ==
    /\ call' = [op |-> "getRelationshipTier", npc |-> npcId, before |-> gameState,
                tier |-> getRelationshipTier(gameState, npcId)]
    /\ UNCHANGED <<gameState, moduleDiplomacy, worker, turn, ops>>
    /\ UNCHANGED navVars
    /\ UNCHANGED <<uiVars, profileVars>>

\* applyEffects with an opinion delta for npcId
CallApplyOpinion(npcId, d) ==
    /\ ops < MaxOps
    /\ gameState' = applyEffects(gameState,
                                 [getDefaultEffects EXCEPT !.npc_opinions = [k \in {npcId} |-> d]])
    /\ call' = NoCall
    /\ ops' = ops + 1
    /\ UNCHANGED <<moduleDiplomacy, worker, turn>>
    /\ UNCHANGED navVars
    /\ UNCHANGED <<uiVars, profileVars>>

NextTier ==
    \/ \E npcId \in CharacterIds : CallGetRelationshipTier(npcId)
    \/ \E d \in TierDeltas : CallApplyOpinion("trepov", d)

SpecTier == InitTier /\ [][NextTier]_vars

(***************************************************************************)
(* StateMachine.reset and StateMachine.isFinished, called between          *)
(* transitions and back navigations.                                       *)
(***************************************************************************)
\* number of reset calls in one run
MaxResets == 1

\* reset() called without an argument
NoArgument == "<none>"

\* the cursor after `this.currentState = undefined`
UndefinedState == "<undefined>"

\* this.states.entry_state: the node table read under the key entry_state
statesEntryState(machine) ==
    IF "entry_state" \in DOMAIN machine.states THEN "entry_state" ELSE UndefinedState

\* StateMachine.reset(entryState): entryState || this.states.entry_state
reset(machine, entryState) ==
    [currentState |-> IF entryState # NoArgument THEN entryState
                      ELSE statesEntryState(machine),
     history |-> << >>, error |-> "none"]

\* StateMachine.isFinished
isFinished(machine) == machine.currentState = StateMachineData.exit_state

\* the arguments reset is called with
ResetArgs == {NoArgument, "s1"}

\* stateMachine.reset(entryState)
Reset(entryState) ==
    /\ ops < MaxResets
    /\ LET r == reset(Machine(currentState, history), entryState)
       IN  /\ currentState' = r.currentState
           /\ history' = r.history
           /\ nav' = NavCall("reset", entryState, r)
    /\ ops' = ops + 1
    /\ UNCHANGED <<gameState, moduleDiplomacy, worker, turn, call, now, aiEnabled>>
    /\ UNCHANGED <<uiVars, profileVars>>

\* stateMachine.isFinished()
CallIsFinished ==
    /\ call' = [op |-> "isFinished", at |-> currentState,
                result |-> isFinished(Machine(currentState, history))]
    /\ UNCHANGED <<gameState, moduleDiplomacy, worker, turn, ops>>
    /\ UNCHANGED navVars
    /\ UNCHANGED <<uiVars, profileVars>>

NextReset ==
    \/ \E choiceId \in ChoiceArgs : Transition(choiceId)
    \/ \E entryState \in ResetArgs : Reset(entryState)
    \/ CallIsFinished

SpecReset == InitNav /\ [][NextReset]_vars

(***************************************************************************)
(* Properties.                                                             *)
(***************************************************************************)
InRange(v) == v >= -100 /\ v <= 100

\* C1: after any sequence of applyEffects calls (through applyChoice,
\* applyAIDialogue, an AI dialogue turn or directly) every faction value and
\* every npc opinion of the game state lies within [-100, 100].
C1_StandingsBounded ==
    /\ \A f \in DOMAIN gameState.factions : InRange(gameState.factions[f])
    /\ \A n \in DOMAIN gameState.npc_opinions : InRange(gameState.npc_opinions[n])

\* deltas of +150 and -150 were applied and the values stopped at the limits
C1_Witness ==
    /\ gameState.factions["RUS"] = 100
    /\ "BRIT" \in DOMAIN gameState.factions
    /\ gameState.factions["BRIT"] = -100
    /\ gameState.npc_opinions["trepov"] = -100

\* the four sub-maps of a mapping's effects, an absent one read as empty
FourSubMaps(effects) ==
    [factions      |-> Sub(effects, "factions"),
     player_traits |-> Sub(effects, "player_traits"),
     npc_opinions  |-> Sub(effects, "npc_opinions"),
     flags         |-> Sub(effects, "flags")]

\* the delta whose four sub-maps are all empty
NeutralDelta ==
    [factions |-> << >>, player_traits |-> << >>, npc_opinions |-> << >>, flags |-> << >>]

\* the mappings of a scene that match the analysis
MatchingMappings(md, sceneId, analysis) ==
    LET s == FindScene(md.acts, sceneId)
    IN  IF s = 0 \/ "ai_dialogue" \notin DOMAIN md.acts[s] THEN {}
        ELSE {i \in 1..Len(md.acts[s].ai_dialogue.effects_mapping) :
                 matchesCondition(md.acts[s].ai_dialogue.effects_mapping[i].condition,
                                  analysis)}

\* the effects of the matching mapping declared first, the neutral delta if none
FirstDeclaredEffects(md, sceneId, analysis) ==
    LET M == MatchingMappings(md, sceneId, analysis)
    IN  IF M = {} THEN NeutralDelta
        ELSE LET first == CHOOSE i \in M : \A j \in M : i <= j
             IN  FourSubMaps(md.acts[FindScene(md.acts, sceneId)]
                                .ai_dialogue.effects_mapping[first].effects)

\* C2: calculateDiplomacyEffects returns the effects of the first mapping in
\* document order whose condition matches, whatever later mappings match, and
\* the neutral delta with four empty sub-maps when the scene has no rules or
\* nothing matches; applyAIDialogue applies exactly that delta.
C2_FirstMatchWins ==
    /\ call.op = "calculateDiplomacyEffects" =>
          call.result = FirstDeclaredEffects(moduleDiplomacy, call.scene, call.analysis)
    /\ call.op = "applyAIDialogue" =>
          gameState = applyEffects(call.before,
                          FirstDeclaredEffects(moduleDiplomacy, call.scene, call.analysis))

\* the lookup ran on an analysis that the first and the third mapping both
\* match, and returned the first mapping's opinion delta
C2_Witness ==
    /\ call.op = "calculateDiplomacyEffects"
    /\ call.scene = "2_trepov_meeting"
    /\ {1, 3} \subseteq MatchingMappings(moduleDiplomacy, call.scene, call.analysis)
    /\ call.result.npc_opinions = [k \in {"trepov"} |-> 5]
    /\ call.result.player_traits = << >>

\* every expected entry of the condition is a set (a list) of values
ExpectedAreSets(condition) == \A i \in 1..Len(condition) : condition[i].expected.isArray

\* the value, or the elements of the list, the analysis carries for a key
CarriedValues(analysis, key) == Range(Field(analysis, key).items)

\* AND across the keys, OR within a key's expected values
AllKeysMeetSomeExpected(condition, analysis) ==
    \A i \in 1..Len(condition) :
        CarriedValues(analysis, condition[i].key) \cap Range(condition[i].expected.items) # {}

LoyalOrNeutral == << [key |-> "overall_tone", expected |-> List(<<"loyal", "neutral">>)] >>

\* C3: for conditions whose expected entries are sets, matchesCondition (of
\* the AIWorker and of the DiplomacyEngine) is true iff for every key the
\* analysis value, or one element of the analysis list, equals one of the
\* expected values; {overall_tone:[loyal,neutral]} matches
\* {overall_tone:[loyal]} and does not match {overall_tone:[critical]}.
C3_MatchesCondition ==
    (call.op \in {"matchesCondition", "engineMatchesCondition"}
        /\ ExpectedAreSets(call.condition)) =>
       /\ call.result = AllKeysMeetSomeExpected(call.condition, call.analysis)
       /\ (call.condition = LoyalOrNeutral
             /\ Field(call.analysis, "overall_tone") = List(<<"loyal">>)) => call.result
       /\ (call.condition = LoyalOrNeutral
             /\ Field(call.analysis, "overall_tone") = List(<<"critical">>)) => ~call.result

\* the example condition was matched against the list [loyal]
C3_Witness ==
    /\ call.op = "matchesCondition"
    /\ call.condition = LoyalOrNeutral
    /\ Field(call.analysis, "overall_tone") = List(<<"loyal">>)
    /\ call.result

\* the guard has been evaluated in the function-level specification
GuardRan == call.op \in {"applyFallbackProtections", "applied"}

\* the delta names the dialogue character
Named == call.npc \in DOMAIN call.effects.npc_opinions

\* the character's opinion before the guard, the delta going in and coming out
OpinionBefore == call.before.npc_opinions[call.npc]

DeltaIn == call.effects.npc_opinions[call.npc]

DeltaOut == call.result.npc_opinions[call.npc]

\* C4: soft lock: for a character with a rule-table entry and a negative
\* delta d with -80 <= c + d < -40 the guard replaces d by max(d, -3); with
\* c = -38 and d = -10 the delta becomes -3 and the applied opinion is -41.
C4_SoftLock ==
    (GuardRan /\ call.npc \in DOMAIN NpcRules /\ Named /\ DeltaIn < 0
        /\ OpinionBefore + DeltaIn >= -80 /\ OpinionBefore + DeltaIn < -40) =>
       /\ DeltaOut = (IF DeltaIn >= -3 THEN DeltaIn ELSE -3)
       /\ (OpinionBefore = -38 /\ DeltaIn = -10) =>
             /\ DeltaOut = -3
             /\ call.op = "applied" => gameState.npc_opinions[call.npc] = -41

C4_Witness ==
    /\ call.op = "applied"
    /\ call.npc = "trepov"
    /\ Named
    /\ OpinionBefore = -38
    /\ DeltaIn = -10
    /\ DeltaOut = -3
    /\ gameState.npc_opinions["trepov"] = -41

\* C5: hard lock: for a character with a rule-table entry and a negative
\* delta d with c + d < -80 (d the original delta) the guard sets the delta to
\* 0 and applying it leaves the opinion at c; c = -75, d = -10 ends at -75.
C5_HardLock ==
    (GuardRan /\ call.npc \in DOMAIN NpcRules /\ Named /\ DeltaIn < 0
        /\ OpinionBefore + DeltaIn < -80) =>
       /\ DeltaOut = 0
       /\ call.op = "applied" => gameState.npc_opinions[call.npc] = OpinionBefore

C5_Witness ==
    /\ call.op = "applied"
    /\ call.npc = "trepov"
    /\ Named
    /\ OpinionBefore = -75
    /\ DeltaIn = -10
    /\ DeltaOut = 0
    /\ gameState.npc_opinions["trepov"] = -75

\* C6: when the predicted opinion c + d is at or above -40 the guard leaves
\* the whole delta as it was, whatever the sign of d; c = 10, d = -5 ends at 5.
C6_NoLockNoChange ==
    (GuardRan /\ OpinionBefore + GetOr0(call.effects.npc_opinions, call.npc) >= -40) =>
       /\ call.result = call.effects
       /\ (call.op = "applied" /\ Named /\ OpinionBefore = 10 /\ DeltaIn = -5) =>
             gameState.npc_opinions[call.npc] = 5

C6_Witness ==
    /\ call.op = "applied"
    /\ call.npc = "trepov"
    /\ Named
    /\ OpinionBefore = 10
    /\ DeltaIn = -5
    /\ DeltaOut = -5
    /\ gameState.npc_opinions["trepov"] = 5

C8_HardFloorKept ==
    [][(turn.pc = "returned" /\ turn'.pc = "idle"
          /\ GetOr0(gameState.npc_opinions, turn.npc) >= -80)
        => GetOr0(gameState'.npc_opinions, turn.npc) >= -80]_vars

\* C9: the delta a dialogue turn is about to apply is the output of the
\* anti-spiral guard run on the looked-up delta and the current game state.
C9_AppliedDeltaIsGuarded ==
    turn.pc = "returned" =>
        turn.effects = applyFallbackProtections(turn.npc, turn.lookup, gameState)

\* C10: AI dialogue turns never modify the content's effect tables.
C10_ContentUnchanged == moduleDiplomacy = ModuleDiplomacy


(***************************************************************************)
(* Properties of the state machine and of the navigation.                  *)
(***************************************************************************)
\* the last call was stateMachine.transition
TransitionCalled == nav.op = "transition"

\* the node the last call started from
NavNode == StateMachineData.states[nav.from]

\* the node declares a choice with the id of the last call
DeclaredChoice ==
    IF "choices" \in DOMAIN NavNode
    THEN \E i \in DOMAIN NavNode.choices : NavNode.choices[i].id = nav.choice
    ELSE FALSE

\* the node declares at least one transition
HasTransitions ==
    IF "transitions" \in DOMAIN NavNode THEN Len(NavNode.transitions) > 0 ELSE FALSE

\* the history is the one before the call plus one record of the move made
OneRecordAppended ==
    /\ Len(history) = Len(nav.before) + 1
    /\ SubSeq(history, 1, Len(nav.before)) = nav.before
    /\ history[Len(history)].from = nav.from
    /\ history[Len(history)].to = currentState
    /\ history[Len(history)].choice = nav.choice

\* the call returned and the cursor is on the first transition's target
MovedToFirstTarget ==
    /\ nav.error = "none"
    /\ currentState = NavNode.transitions[1].to

\* C11: on a scene with choices, transition(choiceId) of a declared choice
\* moves the cursor to that choice's next and appends exactly one record
\* {from: the node before, to: the new node, choice: choiceId}; the records
\* already there stay as they were.
C11_ChoiceTransition ==
    (TransitionCalled /\ NavNode.type = "scene" /\ DeclaredChoice)
        => /\ nav.error = "none"
           /\ \E i \in DOMAIN NavNode.choices :
                 /\ NavNode.choices[i].id = nav.choice
                 /\ currentState = NavNode.choices[i].next
           /\ OneRecordAppended

C11_Witness ==
    /\ TransitionCalled
    /\ nav.from = "s1"
    /\ nav.choice = "b"
    /\ currentState = "s2"
    /\ Len(history) = 2

\* C12: a transition that fails leaves the cursor and the history as they
\* were before the call.
C12_FailedTransitionChangesNothing ==
    (TransitionCalled /\ nav.error # "none")
        => /\ currentState = nav.from
           /\ history = nav.before

C12_Witness ==
    /\ TransitionCalled
    /\ nav.from = "s4"
    /\ nav.choice = "z"
    /\ nav.error = "NoValidTransition"
    /\ currentState = "s4"
    /\ Len(history) > 0

\* the cases the transition rules do not resolve: an undeclared choice id on
\* a scene, a choice id on a hub, or a node without (or with an empty)
\* transitions list that is not left through a declared choice
Unresolvable ==
    \/ NavNode.type = "scene" /\ nav.choice # NoChoice /\ ~DeclaredChoice
    \/ NavNode.type = "hub" /\ nav.choice # NoChoice
    \/ ~HasTransitions /\ ~(NavNode.type = "scene" /\ DeclaredChoice)

\* C13: every transition attempt that cannot be resolved fails with
\* NoValidTransition, and with no other kind of error.
C13_OnlyNoValidTransition ==
    (TransitionCalled /\ Unresolvable) => nav.error = "NoValidTransition"

\* C14: from a scene that declares transitions, transition() without a
\* choice id moves to the first transition's target, whether the scene's
\* choices list is filled, empty or absent.
C14_SceneAutoTransition ==
    (TransitionCalled /\ NavNode.type = "scene" /\ HasTransitions
                      /\ nav.choice = NoChoice)
        => MovedToFirstTarget

\* C15: on a hub with transitions, transition() without a choice id moves to
\* the first transition's target, and transition(choiceId) with a choice id
\* makes no move and fails with NoValidTransition.
C15_HubTransition ==
    (TransitionCalled /\ NavNode.type = "hub" /\ HasTransitions)
        => IF nav.choice = NoChoice
           THEN MovedToFirstTarget /\ OneRecordAppended
           ELSE /\ nav.error = "NoValidTransition"
                /\ currentState = nav.from
                /\ history = nav.before

C15_Witness ==
    /\ TransitionCalled
    /\ nav.from = "hub1"
    /\ nav.choice = "a"
    /\ nav.error = "NoValidTransition"
    /\ currentState = "hub1"

\* C16: on an ai_dialogue or system node with transitions, transition(x)
\* moves to the first transition's target whatever x is, and the record
\* appended carries x as its choice.
C16_AutomaticNodeIgnoresChoice ==
    (TransitionCalled /\ NavNode.type \in {"ai_dialogue", "system"} /\ HasTransitions)
        => MovedToFirstTarget /\ OneRecordAppended

C16_Witness ==
    /\ TransitionCalled
    /\ nav.from = "aid"
    /\ nav.choice = "z"
    /\ currentState = "s4"
    /\ history[Len(history)].choice = "z"

\* engine.navigateBack was the last call
BackCalled == nav.op = "navigateBack"

\* the record navigateBack took back
Undone == nav.before[Len(nav.before)]

\* C17: navigateBack after a forward transition from node A puts the cursor
\* on A again and leaves the history as it was before that transition,
\* whatever the type of A.
C17_GoBackRestores ==
    (BackCalled /\ Len(nav.before) > 0)
        => /\ currentState = Undone.from
           /\ history = SubSeq(nav.before, 1, Len(nav.before) - 1)

\* C18 as stated: navigateBack on an empty history signals an error and
\* leaves cursor and history unchanged.
C18_GoBackEmptyFails ==
    (BackCalled /\ Len(nav.before) = 0)
        => /\ nav.error # "none"
           /\ currentState = nav.from
           /\ history = nav.before

\* C18: navigateBack on an empty history returns without an error and leaves
\* cursor and history unchanged.
C18_GoBackEmptyIsNoOp ==
    (BackCalled /\ Len(nav.before) = 0)
        => /\ nav.error = "none"
           /\ currentState = nav.from
           /\ history = nav.before

C18_Witness ==
    /\ BackCalled
    /\ Len(nav.before) = 0
    /\ nav.from = "start"
    /\ currentState = "start"
    /\ history = << >>


(***************************************************************************)
(* Properties of applyChoice and applyEffects.                             *)
(***************************************************************************)
\* the scene id of the last applyChoice has an entry in the effect table
SceneInTable ==
    \E i \in DOMAIN moduleDiplomacy.acts : moduleDiplomacy.acts[i].scene = call.scene

\* the choice id of the last applyChoice is in the list the scene's entry
\* offers (choices, else linear_choices)
ChoiceInScene ==
    \E i \in DOMAIN moduleDiplomacy.acts :
        /\ moduleDiplomacy.acts[i].scene = call.scene
        /\ LET act  == moduleDiplomacy.acts[i]
               list == IF "choices" \in DOMAIN act THEN act.choices
                       ELSE IF "linear_choices" \in DOMAIN act THEN act.linear_choices
                       ELSE << >>
           IN  \E j \in DOMAIN list : list[j].id = call.choice

\* C19: applyChoice with a scene id absent from the effect table, or a
\* choice id absent from the scene's choice list, leaves the game state
\* unchanged and raises no error.
C19_UnknownChoiceIsNoOp ==
    (call.op = "applyChoice" /\ (~SceneInTable \/ ~ChoiceInScene))
        => /\ gameState = call.before
           /\ call.error = "none"

C19_Witness ==
    /\ call.op = "applyChoice"
    /\ call.scene = "2_trepov_meeting"
    /\ call.choice = "z"
    /\ gameState = call.before
    /\ gameState # initializeGameState

\* the sub-map of the effects of the last applyEffects, empty when not named
Delta(group) == IF group \in DOMAIN call.effects THEN call.effects[group] ELSE EmptyMap

\* every key of the group that the effects do not name is as it was, and the
\* group has no keys but the old ones and the named ones
FrameKept(group) ==
    /\ DOMAIN gameState[group] = DOMAIN call.before[group] \cup DOMAIN Delta(group)
    /\ \A k \in DOMAIN call.before[group] \ DOMAIN Delta(group) :
          gameState[group][k] = call.before[group][k]

\* the value a key had before the call, 0 when it was not present
Before0(group, k) ==
    IF k \in DOMAIN call.before[group] THEN call.before[group][k] ELSE 0

\* C20: applyEffects adds each named trait delta without clamping,
\* overwrites each named flag, leaves every faction, trait, opinion and flag
\* the effects do not name unchanged, and counts a key not yet present as 0
\* before adding.
C20_ApplyEffects ==
    call.op = "applyEffects"
        => /\ \A t \in DOMAIN Delta("player_traits") :
                 gameState.player_traits[t] =
                     Before0("player_traits", t) + Delta("player_traits")[t]
           /\ \A f \in DOMAIN Delta("flags") : gameState.flags[f] = Delta("flags")[f]
           /\ \A g \in {"factions", "npc_opinions"} : \A k \in DOMAIN Delta(g) :
                 LET sum == Before0(g, k) + Delta(g)[k]
                 IN  gameState[g][k] = IF sum > 100 THEN 100
                                       ELSE IF sum < -100 THEN -100 ELSE sum
           /\ \A g \in {"factions", "player_traits", "npc_opinions", "flags"} :
                 FrameKept(g)

C20_Witness ==
    /\ call.op = "applyEffects"
    /\ "player_traits" \in DOMAIN call.effects
    /\ "CUNNING" \notin DOMAIN call.before.player_traits
    /\ "CUNNING" \in DOMAIN gameState.player_traits
    /\ gameState.player_traits["CUNNING"] = -1
    /\ gameState.player_traits["INDEPENDENCE"] = -120


(***************************************************************************)
(* Properties of profile resolution.                                       *)
(***************************************************************************)
\* getNPCProfile was the last call
ProfileCalled == call.op = "getNPCProfile"

\* the base record the lenient worker finds for the character of the last
\* call, 0 if none
BaseFound == findByName(gameData.npcs, call.npc, 1)

\* the character of the last call has a base record with a speech style and
\* no AI-persona record
SpeechStyleOnly ==
    /\ gameData.loaded
    /\ BaseFound.error = "none"
    /\ BaseFound.index # 0
    /\ OrElse(gameData.npcs[BaseFound.index], "Puhetapa", "") # ""
    /\ \A i \in DOMAIN gameData.aiProfiles : gameData.aiProfiles[i].id # call.npc

\* C29: for a character with a base record that has a speech style and with
\* no AI-persona record, the profile the lenient worker resolves has that
\* speech style as its personality.
C29_PersonalityFromSpeechStyle ==
    (ProfileCalled /\ worker = "simplified" /\ SpeechStyleOnly)
        => call.profile["personality"] = gameData.npcs[BaseFound.index].Puhetapa

\* C30: a resolve of a character already in the cache returns the cached
\* profile and changes no state; the first successful resolve puts the
\* profile it returns in the cache; the cache never loses or changes an
\* entry; a resolve that fails adds nothing to the cache.
C30_CacheIdempotent ==
    ProfileCalled
        => /\ call.npc \in DOMAIN call.cacheBefore
                => /\ call.error = "none"
                   /\ call.profile = call.cacheBefore[call.npc]
                   /\ npcCache = call.cacheBefore
           /\ \A k \in DOMAIN call.cacheBefore :
                 k \in DOMAIN npcCache /\ npcCache[k] = call.cacheBefore[k]
           /\ call.error # "none" => npcCache = call.cacheBefore
           /\ (call.error = "none" /\ call.npc \notin DOMAIN call.cacheBefore)
                => /\ call.npc \in DOMAIN npcCache
                   /\ npcCache[call.npc] = call.profile

C30_Witness ==
    /\ ProfileCalled
    /\ worker = "rules"
    /\ call.npc = "trepov"
    /\ call.npc \in DOMAIN call.cacheBefore
    /\ call.error = "none"
    /\ call.profile = npcCache["trepov"]
    /\ "sokolov" \notin DOMAIN npcCache


(***************************************************************************)
(* Properties of the dialogue analysis reducer.                            *)
(***************************************************************************)
\* the document of the last parseResponse lacks a response or an analysis,
\* or its analysis lacks overall_tone or detected_stance_towards_russia
LacksRequired ==
    LET doc == call.text.body
    IN  \/ doc.kind # "object"
        \/ doc.fields["response"] = JAbsent
        \/ doc.fields["analysis"] = JAbsent
        \/ doc.fields["analysis"].kind # "object"
        \/ doc.fields["analysis"].fields["overall_tone"] = JAbsent
        \/ doc.fields["analysis"].fields["detected_stance_towards_russia"] = JAbsent

\* the text of the last parseResponse is missing, is not JSON, or is a JSON
\* document without the required members (JSON null included)
Malformed ==
    \/ ~call.text.present
    \/ call.text.body.kind = "garbage"
    \/ LacksRequired

\* C21: for a missing text, a text that is not JSON, JSON null, JSON without
\* response or analysis, and JSON whose analysis lacks overall_tone or
\* detected_stance_towards_russia, parseResponse returns the fixed neutral
\* fallback reply and does not throw.
C21_MalformedGivesFallback ==
    (call.op = "parseResponse" /\ Malformed)
        => /\ ~call.result.threw
           /\ call.result.value = FallbackReply

C21_Witness ==
    /\ call.op = "parseResponse"
    /\ call.text.present
    /\ call.text.body = JNull
    /\ call.result.value = FallbackReply

\* the families in the order analyzePlayerResponse is said to test them
FamilyOrder == <<"duty", "caution", "refusal", "agreement">>

\* the tone, theme and sentiment stated for each family
FamilyResult(family) ==
    CASE family = "duty"      -> [tone |-> "loyal", theme |-> "duty", sentiment |-> "positive"]
      [] family = "caution"   -> [tone |-> "concerned", theme |-> "caution", sentiment |-> "neutral"]
      [] family = "refusal"   -> [tone |-> "defiant", theme |-> "resistance", sentiment |-> "negative"]
      [] OTHER                -> [tone |-> "cooperative", theme |-> "agreement", sentiment |-> "positive"]

\* the positions in FamilyOrder of the families the last utterance contains
Present == {i \in 1..4 : FamilyOrder[i] \in familiesIn(call.utterance)}

\* C28: analyzePlayerResponse classifies by the first family, in the order
\* duty, caution, refusal, agreement, that the utterance contains (duty and
\* caution together give the duty result only); with no family it returns
\* tone neutral, no themes, sentiment neutral.
C28_FirstFamilyWins ==
    call.op = "analyzePlayerResponse"
        => IF Present = {}
           THEN call.result = [tone |-> Scalar("neutral"), themes |-> List(<< >>),
                               sentiment |-> Scalar("neutral")]
           ELSE LET first == CHOOSE i \in Present : \A j \in Present : i <= j
                    want  == FamilyResult(FamilyOrder[first])
                IN  call.result = [tone |-> Scalar(want.tone),
                                   themes |-> List(<<want.theme>>),
                                   sentiment |-> Scalar(want.sentiment)]

C28_Witness ==
    /\ call.op = "analyzePlayerResponse"
    /\ call.utterance = <<"RISKI", "käsky">>
    /\ call.result.tone = Scalar("loyal")
    /\ call.result.themes = List(<<"duty">>)


\* the last dialogue turn ended because the remote call failed
RemoteFailure == call.op = "turn" /\ call.cause \in {"timeout", "transport"}

\* C22: when the remote call times out or fails in transport, the dialogue
\* turn yields the neutral fallback analysis and no error reaches the
\* orchestrator's handler.
C22_RemoteFailureGivesFallback ==
    RemoteFailure => (~call.caught /\ call.analysis = NeutralAnalysis)

\* C23: after the player submits an utterance the turn eventually ends (the
\* call is no longer in flight and no timer is pending), whether the remote
\* service answers, fails or never answers.
C23_TurnEventuallyEnds ==
    (flights # << >>) ~> (flights = << >> /\ timers = << >>)

\* C24: while a remote call is in flight, no step changes the cursor or the
\* history.
C24_NoNavigationInFlight ==
    [][flights # << >> => (currentState' = currentState /\ history' = history)]_vars

\* the last dialogue turn ended while the cursor was no longer on its hub
LateResult == call.op = "turn" /\ call.at # call.hub

\* C25: a result that arrives after the player left the hub changes neither
\* the game state nor the cursor or history.
C25_LateResultDiscarded ==
    [][(LateResult' /\ Len(flights') < Len(flights))
         => (gameState' = gameState /\ currentState' = currentState
             /\ history' = history)]_vars

\* the skip armed by a failed turn of hub nav.hub has run
FailureSkipped ==
    /\ nav.op = "failureSkip"
    /\ "transitions" \in DOMAIN StateMachineData.states[nav.hub]
    /\ Len(StateMachineData.states[nav.hub].transitions) > 0

\* C26: a failed turn leaves the game state as it was, and the skip it arms
\* moves the machine from the hub to the hub's first transition target.
C26_FailureSkipsFromHub ==
    /\ (call.op = "turn" /\ call.caught) => call.after = call.before
    /\ FailureSkipped =>
         /\ Len(history) > Len(nav.before)
         /\ history[Len(nav.before) + 1].from = nav.hub
         /\ history[Len(nav.before) + 1].to
              = StateMachineData.states[nav.hub].transitions[1].to

\* the cursor rests on a scene with choices whose first choice leads to a
\* hub whose AI character the worker cannot resolve
MissingCharacterAhead ==
    LET state == StateMachineData.states[currentState]
        nxt   == nextTransition(state)
    IN  /\ nav # NoNav
        /\ aiEnabled
        /\ state.type = "scene"
        /\ (IF "choices" \in DOMAIN state THEN Len(state.choices) > 0 ELSE FALSE)
        /\ nxt \in NodeIds
        /\ StateMachineData.states[nxt].type = "hub"
        /\ "ai_dialogue" \in DOMAIN StateMachineData.states[nxt]
        /\ profileThrows(StateMachineData.states[nxt].ai_dialogue.npc_id)

\* C27: a missing character record never stops the narrative: the scene
\* before the hub still presents its choices.
C27_MissingCharacterStillShowsChoices ==
    MissingCharacterAhead => screen = [kind |-> "choices", node |-> currentState]


\* the scene ids a scope check can be asked about
AskedScenes == SceneIds \cup {"undefined"}

\* the AI profile of npcId declares sceneId in its scene scope
InScope(npcId, sceneId) ==
    /\ npcId \in DOMAIN AiProfiles
    /\ sceneId \in AiProfiles[npcId].scene_scope

\* C31: the rule-table worker's startDialogue for a character without an AI
\* profile, or whose profile does not declare the scene, fails before any
\* remote call is made and leaves the game state alone; isNPCAllowedInScene
\* is true exactly when the scene id is in the profile's scope.
C31_OutOfScopeFailsEarly ==
    worker = "rules" =>
        /\ \A i \in DOMAIN flights : InScope(flights[i].npc, flights[i].scene)
        /\ (call.op = "turn" /\ call.cause = "notAllowed") =>
               call.after = call.before
        /\ \A n \in CharacterIds, sc \in AskedScenes :
               isNPCAllowedInScene(n, sc) <=> InScope(n, sc)

C31_Witness ==
    /\ worker = "rules"
    /\ call.op = "turn"
    /\ call.cause = "notAllowed"
    /\ flights = << >>


\* the tier the bands HOSTILE <= -50, COLD -49..-10, NEUTRAL -9..9,
\* FRIENDLY 10..49, ALLY >= 50 give to an opinion
TierOfBand(opinion) ==
    CASE opinion <= -50 -> "HOSTILE"
      [] opinion \in -49..-10 -> "COLD"
      [] opinion \in -9..9 -> "NEUTRAL"
      [] opinion \in 10..49 -> "FRIENDLY"
      [] opinion >= 50 -> "ALLY"

TierRank(tier) ==
    CASE tier = "HOSTILE" -> 0 [] tier = "COLD" -> 1 [] tier = "NEUTRAL" -> 2
      [] tier = "FRIENDLY" -> 3 [] tier = "ALLY" -> 4

TierCalled == call.op = "getRelationshipTier"

\* C32: getRelationshipTier returns the tier of the band the current opinion
\* lies in, NEUTRAL for a character without opinion entry; over -100..100 it
\* is total and non-decreasing in the opinion.
C32_RelationshipTier ==
    /\ TierCalled =>
         /\ call.npc \in DOMAIN call.before.npc_opinions =>
                call.tier = TierOfBand(call.before.npc_opinions[call.npc])
         /\ call.npc \notin DOMAIN call.before.npc_opinions => call.tier = "NEUTRAL"
    /\ \A c \in -100..100 :
         relationshipTier(c) \in {"HOSTILE", "COLD", "NEUTRAL", "FRIENDLY", "ALLY"}
    /\ \A c \in -100..99 :
         TierRank(relationshipTier(c)) <= TierRank(relationshipTier(c + 1))

C32_Witness ==
    /\ TierCalled
    /\ call.npc = "trepov"
    /\ call.before.npc_opinions["trepov"] = -50
    /\ call.tier = "HOSTILE"
    /\ ops > 0


\* matchesCondition (either copy) was called with a condition of one key
\* whose expected value is a single value, on an analysis whose value for
\* that key is a list
ScalarAgainstList ==
    /\ call.op \in {"matchesCondition", "engineMatchesCondition"}
    /\ Len(call.condition) = 1
    /\ ~call.condition[1].expected.isArray
    /\ Field(call.analysis, call.condition[1].key).isArray

\* C33: a single expected value matches a list-valued analysis field iff
\* some element of the list equals it.
C33_ScalarExpectedMatchesAny ==
    ScalarAgainstList =>
        LET expected == call.condition[1].expected.items[1]
            actual   == Field(call.analysis, call.condition[1].key).items
        IN  call.result <=> (\E i \in DOMAIN actual : actual[i] = expected)


\* the guard as a function of the current opinion and the opinion delta
\* alone: neutralized below the hard threshold, softened below the soft one
GuardOf(opinion, delta) ==
    IF delta >= 0 THEN delta
    ELSE IF opinion + delta < -80 THEN 0
    ELSE IF opinion + delta < -40 THEN Max(delta, -3)
    ELSE delta

\* applyFallbackProtections was called with a delta that names the character
GuardCalledOnNamed ==
    /\ call.op = "applyFallbackProtections"
    /\ call.npc \in DOMAIN call.effects.npc_opinions

\* C34: the guarded delta depends only on the character's current opinion
\* and the delta's opinion component, whether or not the character has an
\* entry in the per-character rule table.
C34_GuardIgnoresRuleTable ==
    GuardCalledOnNamed =>
        call.result.npc_opinions[call.npc]
            = GuardOf(GetOr0(call.before.npc_opinions, call.npc),
                      call.effects.npc_opinions[call.npc])


\* a step of handleChoice (a click on a choice or ArrowRight) whose
\* transition(choiceId) threw "No valid transition"
HandleChoiceRejected ==
    /\ ops' = ops + 1
    /\ nav'.op = "handleChoice"
    /\ nav'.input = ops
    /\ nav'.error = "NoValidTransition"

\* C35: when the state machine rejects the choice, handleChoice leaves the
\* game state as it was before the call.
C35_RejectedChoiceChangesNothing ==
    [][HandleChoiceRejected => gameState' = gameState]_vars


\* the last handler run was a choice delivered by a number-key listener
KeyDelivered == nav.op = "keyChoice"

\* C36: a choice callback is never delivered after the state machine has
\* left the scene whose choices it was registered for.
C36_NoStaleChoiceDelivery ==
    KeyDelivered => nav.from = nav.hub


\* a step of navigateBack
BackStep ==
    /\ ops' = ops + 1
    /\ nav'.op = "navigateBack"
    /\ nav'.input = ops

\* C37: navigateBack leaves the game state (and the diplomacy content) as
\* it is: the effects of the choice that is undone stay applied.
C37_BackKeepsGameState ==
    [][BackStep => (gameState' = gameState /\ moduleDiplomacy' = moduleDiplomacy)]_vars

\* a choice with effects was undone by navigateBack
C37_Witness ==
    /\ nav.op = "navigateBack"
    /\ nav.error = "none"
    /\ Len(nav.before) > 0
    /\ nav.before[Len(nav.before)].choice # NoChoice
    /\ Len(history) < Len(nav.before)
    /\ gameState # initializeGameState


\* C38: the history is a chain that ends on the cursor: each record's `to`
\* is the next record's `from`, the last record's `to` is currentState, and
\* with an empty history the cursor is on the entry state.
C38_HistoryChain ==
    /\ \A i \in 1..(Len(history) - 1) : history[i].to = history[i + 1].from
    /\ Len(history) > 0 => history[Len(history)].to = currentState
    /\ Len(history) = 0 => currentState = StateMachineData.entry_state

\* navigateBack undid the last of several transitions
C38_Witness ==
    /\ nav.op = "navigateBack"
    /\ nav.error = "none"
    /\ Len(nav.before) >= 2
    /\ Len(history) = Len(nav.before) - 1
    /\ history[Len(history)].to = currentState


\* reset() was called without an argument
ResetWithoutArgument == nav.op = "reset" /\ nav.choice = NoArgument

\* C40: reset() without an argument puts the cursor on the entry state and
\* empties the history, so that getCurrentState() returns the entry node.
C40_ResetToEntry ==
    ResetWithoutArgument =>
        /\ currentState = StateMachineData.entry_state
        /\ history = << >>
        /\ currentState \in DOMAIN StateMachineData.states


\* the machine is finished
AtExit == isFinished(Machine(currentState, history))

\* C39: the finished state is absorbing: with the cursor on the exit node the
\* orchestrator has raised no error and no step moves the cursor or the
\* history.
C39_ExitAbsorbing ==
    /\ [](AtExit => nav.error = "none")
    /\ [][AtExit => (currentState' = currentState /\ history' = history)]_vars

====
